---- MODULE Spec2Model ----
(***************************************************************************)
(* Model of the dideban monitoring engine: the worker-pool scheduler       *)
(* (internal/core scheduler), the engine lifecycle (internal/core engine)  *)
(* and the per-check task executeCheck (internal/core/tasks.go).           *)
(*                                                                         *)
(* Goroutines are modelled by their position (pc); every statement that    *)
(* another goroutine can interleave with is a step of its own.             *)
(***************************************************************************)
EXTENDS Integers, Naturals, Sequences, FiniteSets, Bags, TLC

----------------------------------------------------------------------------
(* Bounds of the model *)

WorkerCount == 2        \* config.Scheduler.WorkerCount (1..1000)
MaxRetries == 1         \* config.Scheduler.MaxRetries (0..10)
NumJobs == 1            \* job ids 1..NumJobs offered to AddJob and RemoveJob
NumChecks == 2          \* check ids 1..NumChecks; the job of check id is "check_<id>"
MaxFirings == 3         \* firings over a run: one per job object started, one per tick
NumAlerts == 2          \* alert ids 1..NumAlerts
NumAgents == 1          \* agent ids 1..NumAgents
MaxTime == 90           \* seconds the clock of the liveness loop runs for
SampleInterval == 30    \* an interval_seconds inside the limits of ValidateCheck
PhraseBytes == 512      \* bytes of one phrase of a response body

----------------------------------------------------------------------------
(* Constants of the code *)

GracePeriod == 30       \* checkOfflineAgents: gracePeriod := 30 * time.Second
TickPeriod == 30        \* processResults: time.NewTicker(30 * time.Second)
MinInterval == 10       \* ValidateAgent: minimum of Agent.IntervalSeconds

JobIDs == 1..NumJobs

CheckIDs == 1..NumChecks

----------------------------------------------------------------------------
(* State *)

VARIABLES
    running,     \* Scheduler.running
    workers,     \* number of tokens in the Scheduler.workers channel
    jobs,        \* Scheduler.jobs: job id -> index of the ScheduledJob object
    insts,       \* the ScheduledJob objects created so far, with their goroutine
    execs,       \* bag of worker goroutines (one per acquired token)
    smu,         \* holder of Scheduler.mu: "free", "Stop" (in wg.Wait), "Start" (blocked)
    cancelled,   \* contexts whose cancel function has been called
    eRunning,    \* Engine.running
    epc,         \* position of the Engine.Start/Stop call that holds Engine.mu
    sup,         \* the processResults goroutine: "none", "run", "done"
    ticks,       \* number of ticks the tickers have emitted so far
    checks,      \* ids of the enabled checks in storage
    mode,        \* how the scheduler is driven: "scheduler" (its own API) or "engine"
    alerts,      \* the alerts table of storage
    agents,      \* the agents table of storage: agent id -> row
    now,         \* time.Now(), in seconds
    out,         \* what the last run of executeCheck or checkOfflineAgents did
    del,         \* Handler.Delete: 0, or the id of the check whose record it deleted
    loopvar,     \* how the toolchain scopes a range variable: "shared" or "perIteration"
    table,       \* the checks table of storage, row by row in the order of the ids
    heap,        \* the storage.Check structs that task closures point to
    sched,       \* the jobs map of the engine's scheduler: check id -> ScheduledJob
    loop,        \* Engine.Start between "Load checks" and the end of its loop
    arg,         \* the argument a validator or a parser is applied to
    client,      \* HTTPChecker.client, the one http.Client of the checker
    calls,       \* the HTTPChecker.Check calls in progress, one per worker
    snap         \* the agents checkOfflineAgents has loaded and not yet gone through

\* storage tables and handler outputs that the scheduler never touches
\* the check records behind the jobs, followed through the REST handlers
ext == <<loopvar, table, heap, sched, loop>>

\* what concurrent goroutines share outside the scheduler
conc == <<client, calls, snap>>

aux == <<alerts, agents, now, out, del, ext, arg, conc>>

vars == <<running, workers, jobs, insts, execs, smu, cancelled,
          eRunning, epc, sup, ticks, checks, mode, aux>>

schedState == <<running, workers, jobs, insts, execs>>

----------------------------------------------------------------------------
(* Contexts *)

\* Engine.Start derives engineCtx from the caller's ctx
EngineCtxParent == "parent"

\* Scheduler.Start derives (and drops) a child of the ctx it is given:
\* the caller's ctx, or engineCtx when Engine.Start calls it
SchedCtxParent == IF mode = "engine" THEN "engine" ELSE "parent"

\* startJobUnsafe derives every job context from context.Background()
JobCtxParent == "background"

RECURSIVE CtxErr(_)
CtxErr(c) ==
    IF c = "background" THEN FALSE
    ELSE IF c \in cancelled THEN TRUE
    ELSE IF c = "engine" THEN CtxErr(EngineCtxParent)
    ELSE IF c = "sched" THEN CtxErr(SchedCtxParent)
    ELSE FALSE

\* ctx.Err() != nil for the context of job object i
JobCtxErr(i) == insts[i].cancelled \/ CtxErr(JobCtxParent)

----------------------------------------------------------------------------
(* Derived views *)

InstIdx == 1..Len(insts)

Min(a, b) == IF a < b THEN a ELSE b

\* the worker goroutines in the set T of goroutine states, as a bag
BagOver(T) == [e \in T |-> execs[e]]

ExecsOf(i) == {e \in BagToSet(execs) : e.job = i}

\* number of worker goroutines of job object i
InFlight(i) == BagCardinality(BagOver(ExecsOf(i)))

NumExecs == BagCardinality(execs)

\* Scheduler.wg: job goroutines plus worker goroutines not yet Done
wg == Cardinality({i \in InstIdx : insts[i].pc # "done"}) + NumExecs

\* firings the job objects and tickers created so far give rise to
Firings == Len(insts) + ticks

\* capacity of the workers channel, make(chan struct{}, cfg.WorkerCount)
PoolCap == WorkerCount

----------------------------------------------------------------------------
(* Scheduler: job objects *)

\* a ScheduledJob as its creator hands it to AddJob (its ID is the key under
\* which s.jobs holds it)
NewJob ==
    [running |-> FALSE, cancelled |-> FALSE, stopped |-> TRUE,
     tick |-> 0, pc |-> "none", lastFire |-> "none"]

\* startJobUnsafe: fresh context, fresh ticker, goroutine runJob started
startJobUnsafe(j) ==
    IF j.running THEN j
    ELSE [j EXCEPT !.cancelled = FALSE, !.stopped = FALSE, !.tick = 0,
                   !.pc = "first", !.running = TRUE]

\* stopJobUnsafe that stops the ticker but leaves the context alone
stopJobUnsafe_NoCancel(j) ==
    IF ~j.running THEN j
    ELSE [j EXCEPT !.stopped = TRUE, !.running = FALSE]

\* stopJobUnsafe: cancel the job context, stop the ticker
stopJobUnsafe(j) ==
    IF ~j.running THEN j
    ELSE [j EXCEPT !.cancelled = TRUE, !.stopped = TRUE, !.running = FALSE]

\* a worker goroutine right after it was spawned by executeJobTask
NewExec(i) ==
    [job |-> i, pc |-> "ctxcheck", attempt |-> 0, invoked |-> 0,
     backoff |-> 0, err |-> FALSE, trace |-> <<>>]

----------------------------------------------------------------------------
(* Scheduler API *)

\* what a call hands back in the step that models it: nil, an error, or
\* nothing yet when the call blocks or waits in that step
Results == {"ok", "err", "none"}

\* Start fills the pool; a send on a full channel blocks with s.mu held
StartBlocks == workers + WorkerCount > PoolCap

Start(res) ==
    /\ mode = "scheduler"
    /\ smu = "free"
    /\ IF running
       THEN /\ res = "err"
            /\ UNCHANGED <<running, workers, smu, cancelled>>
       ELSE /\ cancelled' = cancelled \ {"sched"}
            /\ workers' = Min(PoolCap, workers + WorkerCount)
            /\ IF StartBlocks
               THEN res = "none" /\ smu' = "Start" /\ UNCHANGED running
               ELSE res = "ok" /\ running' = TRUE /\ UNCHANGED smu
    /\ UNCHANGED <<jobs, insts, execs, eRunning, epc, sup, ticks, checks, mode, aux>>

\* the loop of Stop over s.jobs
StopAllJobs ==
    [i \in InstIdx |->
        IF \E id \in DOMAIN jobs : jobs[id] = i
        THEN stopJobUnsafe(insts[i]) ELSE insts[i]]

Stop(res) ==
    /\ mode = "scheduler"
    /\ smu = "free"
    /\ IF ~running
       THEN /\ res = "ok"
            /\ UNCHANGED <<smu, cancelled, insts>>
       ELSE /\ res = "none"
            /\ cancelled' = cancelled \cup {"sched"}
            /\ insts' = StopAllJobs
            /\ smu' = "Stop"
    /\ UNCHANGED <<running, workers, jobs, execs, eRunning, epc, sup, ticks, checks, mode, aux>>

\* s.wg.Wait() returns, Stop finishes
StopReturn ==
    /\ smu = "Stop"
    /\ wg = 0
    /\ running' = FALSE
    /\ smu' = "free"
    /\ epc' = IF epc = "inSchedStop" THEN "waitSup" ELSE epc
    /\ UNCHANGED <<workers, jobs, insts, execs, cancelled, eRunning, sup, ticks, checks, mode, aux>>

\* AddJob without the "already exists" rejection
AddJobErr_NoDup(id) == ~running

\* the two rejections of AddJob
AddJobErr(id) == ~running \/ id \in DOMAIN jobs

\* s.jobs[job.ID] = job
MapPut(m, k, v) == [x \in DOMAIN m \cup {k} |-> IF x = k THEN v ELSE m[x]]

MapDel(m, k) == [x \in DOMAIN m \ {k} |-> m[x]]

AddJob(id, res) ==
    /\ mode = "scheduler"
    /\ smu = "free"
    /\ IF AddJobErr(id)
       THEN /\ res = "err"
            /\ UNCHANGED <<jobs, insts>>
       ELSE /\ res = "ok"
            /\ Firings < MaxFirings
            /\ insts' = Append(insts, startJobUnsafe(NewJob))
            /\ jobs' = MapPut(jobs, id, Len(insts) + 1)
    /\ UNCHANGED <<running, workers, execs, smu, cancelled, eRunning, epc, sup, ticks, checks, mode, aux>>

RemoveJob(id, res) ==
    /\ mode = "scheduler"
    /\ IF id \notin DOMAIN jobs
       THEN /\ res = "err"
            /\ UNCHANGED <<jobs, insts>>
       ELSE /\ res = "ok"
            /\ insts' = [insts EXCEPT ![jobs[id]] = stopJobUnsafe(@)]
            /\ jobs' = MapDel(jobs, id)
    /\ UNCHANGED <<running, workers, execs, smu, cancelled, eRunning, epc, sup, ticks, checks, mode, aux>>

\* the caller of Start cancels the context it passed
CancelParent ==
    /\ mode = "engine"
    /\ "parent" \notin cancelled
    /\ running \/ eRunning
    /\ cancelled' = cancelled \cup {"parent"}
    /\ UNCHANGED <<running, workers, jobs, insts, execs, smu, eRunning, epc,
                   sup, ticks, checks, mode, aux>>

----------------------------------------------------------------------------
(* Job goroutine: runJob, executeJobTask *)

\* the ticker of job object i fires; its channel buffers one tick, and a
\* tick that finds the buffer full is dropped
TickerFire(i) ==
    /\ ~insts[i].stopped
    /\ insts[i].tick = 0
    /\ Firings < MaxFirings
    /\ ticks' = ticks + 1
    /\ insts' = [insts EXCEPT ![i].tick = 1]
    /\ UNCHANGED <<running, workers, jobs, execs, smu, cancelled, eRunning,
                   epc, sup, checks, mode, aux>>

\* executeJobTask that runs the firing also when the pool is empty
executeJobTask_NoShed(i, ins) ==
    /\ workers' = IF workers > 0 THEN workers - 1 ELSE 0
    /\ execs' = execs (+) SetToBag({NewExec(i)})
    /\ insts' = [ins EXCEPT ![i].lastFire = "ran"]

\* executeJobTask for job object i, on the job objects ins: take a token
\* without blocking and spawn the worker goroutine, or skip the firing
\* (lastFire keeps what the log line of the firing says)
executeJobTask(i, ins) ==
    IF workers > 0
    THEN /\ workers' = workers - 1
         /\ execs' = execs (+) SetToBag({NewExec(i)})
         /\ insts' = [ins EXCEPT ![i].lastFire = "ran"]
    ELSE /\ insts' = [ins EXCEPT ![i].lastFire = "skipped"]
         /\ UNCHANGED <<workers, execs>>

\* runJob that waits for the first tick before it executes
runJobFirst_NoImmediate(i) ==
    /\ insts[i].pc = "first"
    /\ insts' = [insts EXCEPT ![i].pc = "loop"]
    /\ UNCHANGED <<running, workers, jobs, execs, smu, cancelled, eRunning,
                   epc, sup, ticks, checks, mode, aux>>

\* runJob: "Execute immediately on start"
runJobFirst(i) ==
    /\ insts[i].pc = "first"
    /\ executeJobTask(i, [insts EXCEPT ![i].pc = "loop"])
    /\ UNCHANGED <<running, jobs, smu, cancelled, eRunning, epc, sup,
                   ticks, checks, mode, aux>>

\* runJob: case <-job.ticker.C
runJobTick(i) ==
    /\ insts[i].pc = "loop"
    /\ insts[i].tick = 1
    /\ executeJobTask(i, [insts EXCEPT ![i].tick = 0])
    /\ UNCHANGED <<running, jobs, smu, cancelled, eRunning, epc, sup,
                   ticks, checks, mode, aux>>

\* runJob: case <-ctx.Done(), then the deferred ticker.Stop and wg.Done
runJobDone(i) ==
    /\ insts[i].pc = "loop"
    /\ JobCtxErr(i)
    /\ insts' = [insts EXCEPT ![i].pc = "done", ![i].stopped = TRUE, ![i].tick = 0]
    /\ UNCHANGED <<running, workers, jobs, execs, smu, cancelled, eRunning,
                   epc, sup, ticks, checks, mode, aux>>

----------------------------------------------------------------------------
(* Worker goroutine: executeWithRetry running the task executeCheck *)

Replace(e, f) == (execs (-) SetToBag({e})) (+) SetToBag({f})

\* executeWithRetry has returned: its locals are gone, the defers run
Returned(e) == [NewExec(e.job) EXCEPT !.pc = "ret"]

\* the goroutine's defers without the send to s.workers
workerReturn_NoRelease(e) ==
    /\ execs' = execs (-) SetToBag({e})
    /\ UNCHANGED workers

\* the goroutine's defers: return the token to the pool (a send that blocks
\* on a full channel), then wg.Done
workerReturn(e) ==
    /\ workers < PoolCap
    /\ workers' = workers + 1
    /\ execs' = execs (-) SetToBag({e})

\* worker goroutine e moves on to f, or runs its defers when it has returned
Advance(e, f) ==
    IF f.pc = "ret" THEN workerReturn(e)
    ELSE execs' = Replace(e, f) /\ UNCHANGED workers

\* executeWithRetry without the cancellation check before an attempt
execCtxCheck_Ignore(e) ==
    /\ e.pc = "ctxcheck"
    /\ Advance(e, [e EXCEPT !.pc = "task"])
    /\ UNCHANGED <<running, jobs, insts, smu, cancelled, eRunning, epc, sup,
                   ticks, checks, mode, aux>>

\* executeWithRetry: if ctx.Err() != nil { return }
execCtxCheck(e) ==
    /\ e.pc = "ctxcheck"
    /\ Advance(e, IF JobCtxErr(e.job) THEN Returned(e)
                  ELSE [e EXCEPT !.pc = "task"])
    /\ UNCHANGED <<running, jobs, insts, smu, cancelled, eRunning, epc, sup,
                   ticks, checks, mode, aux>>

\* job.Task(ctx) is called: executeCheck runs the probe through the dispatcher
executeCheckProbe(e) ==
    /\ e.pc = "task"
    /\ Advance(e, [e EXCEPT !.pc = "persist", !.invoked = @ + 1,
                            !.err = FALSE, !.trace = <<"probe">>])
    /\ UNCHANGED <<running, jobs, insts, smu, cancelled, eRunning, epc, sup,
                   ticks, checks, mode, aux>>

\* executeWithRetry that allows one re-attempt too many
afterError_OffByOne(e) ==
    IF e.attempt <= MaxRetries
    THEN [e EXCEPT !.pc = "backoff", !.err = TRUE, !.backoff = e.attempt + 1]
    ELSE Returned(e)

\* executeWithRetry after job.Task returned an error: back off or give up
afterError(e) ==
    IF e.attempt < MaxRetries
    THEN [e EXCEPT !.pc = "backoff", !.err = TRUE, !.backoff = e.attempt + 1]
    ELSE Returned(e)

\* job.Task(ctx) of a job that a client of the Scheduler added: it is called
\* and it returns nil or an error
Task(e) ==
    /\ e.pc = "task"
    /\ \E ok \in BOOLEAN :
         Advance(e, IF ok THEN Returned(e)
                    ELSE afterError([e EXCEPT !.invoked = @ + 1]))
    /\ UNCHANGED <<running, jobs, insts, smu, cancelled, eRunning, epc, sup,
                   ticks, checks, mode, aux>>

\* job.Task(ctx) panics: neither executeJobTask nor executeWithRetry defers a
\* recover, so the panic unwinds the worker goroutine and the Go runtime
\* ends the process, the goroutine still holding its token
TaskPanic(e) ==
    /\ e.pc = "task"
    /\ execs' = Replace(e, [e EXCEPT !.pc = "panic", !.invoked = @ + 1])
    /\ UNCHANGED <<running, workers, jobs, insts, smu, cancelled, eRunning, epc,
                   sup, ticks, checks, mode, aux>>

\* the process has ended in an unrecovered panic
Crashed == \E e \in BagToSet(execs) : e.pc = "panic"

\* executeCheck that evaluates alerts although the observation was not stored
afterPersist_AlertAnyway(e, ok) ==
    IF ok
    THEN [e EXCEPT !.pc = "alerts", !.trace = Append(@, "persist")]
    ELSE [e EXCEPT !.pc = "alerts", !.trace = Append(@, "persistFailed")]

\* executeCheck after DB().Create(result): evaluate alerts, or return the error
afterPersist(e, ok) ==
    IF ok
    THEN [e EXCEPT !.pc = "alerts", !.trace = Append(@, "persist")]
    ELSE afterError([e EXCEPT !.trace = Append(@, "persistFailed")])

\* executeCheck: DB().Create(result); on failure the task returns the error
executeCheckPersist(e) ==
    /\ e.pc = "persist"
    /\ \E ok \in BOOLEAN : Advance(e, afterPersist(e, ok))
    /\ UNCHANGED <<running, jobs, insts, smu, cancelled, eRunning, epc, sup,
                   ticks, checks, mode, aux>>

\* executeCheck: processCheckResult, then the task returns nil
processCheckResult(e) ==
    /\ e.pc = "alerts"
    /\ Advance(e, Returned(e))
    /\ UNCHANGED <<running, jobs, insts, smu, cancelled, eRunning, epc, sup,
                   ticks, checks, mode, aux>>

\* executeWithRetry: case <-time.After(backoff): continue, and the next
\* iteration starts with its cancellation check
backoffElapsed(e) ==
    /\ e.pc = "backoff"
    /\ Advance(e, IF JobCtxErr(e.job) THEN Returned(e)
                  ELSE [e EXCEPT !.pc = "task", !.attempt = @ + 1])
    /\ UNCHANGED <<running, jobs, insts, smu, cancelled, eRunning, epc, sup,
                   ticks, checks, mode, aux>>

\* executeWithRetry: case <-ctx.Done(): return
backoffCancelled(e) ==
    /\ e.pc = "backoff"
    /\ JobCtxErr(e.job)
    /\ Advance(e, Returned(e))
    /\ UNCHANGED <<running, jobs, insts, smu, cancelled, eRunning, epc, sup,
                   ticks, checks, mode, aux>>

----------------------------------------------------------------------------
(* Engine *)

\* Engine.Start, "Schedule all checks": scheduleCheck -> AddJob for every
\* loaded check, in the order of the ids; a rejected AddJob is logged and skipped
RECURSIVE ScheduleAll(_, _, _)
ScheduleAll(ids, js, ins) ==
    IF ids = {} THEN <<js, ins>>
    ELSE LET id == CHOOSE x \in ids : \A y \in ids : x <= y
         IN IF id \in DOMAIN js
            THEN ScheduleAll(ids \ {id}, js, ins)
            ELSE ScheduleAll(ids \ {id}, MapPut(js, id, Len(ins) + 1),
                             Append(ins, startJobUnsafe(NewJob)))

EngineStart(res) ==
    /\ mode = "engine"
    /\ epc = "idle"
    /\ smu = "free"
    /\ IF eRunning
       THEN /\ res = "err"
            /\ UNCHANGED <<running, workers, jobs, insts, smu, cancelled,
                           eRunning, epc, sup>>
       ELSE \E loaded \in BOOLEAN :
            IF ~loaded \/ running
            THEN \* loading failed or the scheduler refused: cancel(), return the error
                 /\ res = "err"
                 /\ cancelled' = cancelled \cup {"engine"}
                 /\ UNCHANGED <<running, workers, jobs, insts, smu, eRunning, epc, sup>>
            ELSE /\ workers' = Min(PoolCap, workers + WorkerCount)
                 /\ IF StartBlocks
                    THEN /\ res = "none"
                         /\ smu' = "Start"
                         /\ epc' = "startBlocked"
                         /\ cancelled' = cancelled \ {"engine", "sched"}
                         /\ UNCHANGED <<running, jobs, insts, eRunning, sup>>
                    ELSE /\ res = "ok"
                         /\ Firings + Cardinality(checks \ DOMAIN jobs) <= MaxFirings
                         /\ cancelled' = cancelled \ {"engine", "sched"}
                         /\ running' = TRUE
                         /\ jobs' = ScheduleAll(checks, jobs, insts)[1]
                         /\ insts' = ScheduleAll(checks, jobs, insts)[2]
                         /\ sup' = "run"
                         /\ eRunning' = TRUE
                         /\ UNCHANGED <<smu, epc>>
    /\ UNCHANGED <<execs, ticks, checks, mode, aux>>

\* Engine.AddCheck: store the check, which gives it the next id, then
\* scheduleCheck -> AddJob
AddCheck(id, res) ==
    /\ mode = "engine"
    /\ epc = "idle"
    /\ smu = "free"
    /\ id = Cardinality(checks) + 1
    /\ IF ~eRunning
       THEN /\ res = "err"
            /\ UNCHANGED <<jobs, insts, checks>>
       ELSE \E saved \in BOOLEAN :
            IF ~saved
            THEN /\ res = "err"
                 /\ UNCHANGED <<jobs, insts, checks>>
            ELSE /\ checks' = checks \cup {id}
                 /\ IF AddJobErr(id)
                    THEN /\ res = "err"
                         /\ UNCHANGED <<jobs, insts>>
                    ELSE /\ res = "ok"
                         /\ Firings < MaxFirings
                         /\ insts' = Append(insts, startJobUnsafe(NewJob))
                         /\ jobs' = MapPut(jobs, id, Len(insts) + 1)
    /\ UNCHANGED <<running, workers, execs, smu, cancelled, eRunning, epc, sup, ticks, mode, aux>>

\* Engine.Stop up to the call of Scheduler.Stop: e.cancel()
EngineStop(res) ==
    /\ mode = "engine"
    /\ epc = "idle"
    /\ IF ~eRunning
       THEN res = "ok" /\ UNCHANGED <<cancelled, epc>>
       ELSE /\ res = "none"
            /\ cancelled' = cancelled \cup {"engine"}
            /\ epc' = "schedStop"
    /\ UNCHANGED <<running, workers, jobs, insts, execs, smu, eRunning, sup,
                   ticks, checks, mode, aux>>

\* Engine.Stop: e.scheduler.Stop() up to its s.wg.Wait()
EngineStopScheduler ==
    /\ epc = "schedStop"
    /\ smu = "free"
    /\ IF ~running
       THEN /\ epc' = "waitSup"
            /\ UNCHANGED <<smu, cancelled, insts>>
       ELSE /\ cancelled' = cancelled \cup {"sched"}
            /\ insts' = StopAllJobs
            /\ smu' = "Stop"
            /\ epc' = "inSchedStop"
    /\ UNCHANGED <<running, workers, jobs, execs, eRunning, sup, ticks, checks, mode, aux>>

\* Engine.Stop: e.wg.Wait() returns, e.running = false
EngineStopReturn ==
    /\ epc = "waitSup"
    /\ sup # "run"
    /\ eRunning' = FALSE
    /\ epc' = "idle"
    /\ UNCHANGED <<running, workers, jobs, insts, execs, smu, cancelled, sup,
                   ticks, checks, mode, aux>>

\* processResults: case <-ctx.Done(): return
processResultsDone ==
    /\ sup = "run"
    /\ CtxErr("engine")
    /\ sup' = "done"
    /\ UNCHANGED <<running, workers, jobs, insts, execs, smu, cancelled,
                   eRunning, epc, ticks, checks, mode, aux>>

----------------------------------------------------------------------------
(* REST API: Handler.Delete of a check *)

\* Handler.Delete up to the deletion of the record: 404 for an id that is
\* not in storage, 500 when the DELETE fails, else the record is gone
DeleteRecord(id, deleted) ==
    /\ mode = "engine"
    /\ del = 0
    /\ IF id \in checks /\ deleted
       THEN checks' = checks \ {id} /\ del' = id
       ELSE UNCHANGED <<checks, del>>
    /\ UNCHANGED <<running, workers, jobs, insts, execs, smu, cancelled, eRunning,
                   epc, sup, ticks, mode, alerts, agents, now, out, ext, arg, conc>>

\* Engine.RemoveCheckFromScheduler: Scheduler.RemoveJob of the job of the
\* check; its error for a job that is not there is only logged by the caller
RemoveCheckFromScheduler(id) ==
    IF id \in DOMAIN jobs
    THEN /\ insts' = [insts EXCEPT ![jobs[id]] = stopJobUnsafe(@)]
         /\ jobs' = MapDel(jobs, id)
    ELSE UNCHANGED <<jobs, insts>>

\* Handler.Delete, "Remove from scheduler if engine is running"; IsRunning
\* takes Engine.mu for reading
DeleteUnschedule ==
    /\ mode = "engine"
    /\ del # 0
    /\ epc = "idle"
    /\ IF eRunning
       THEN RemoveCheckFromScheduler(del)
       ELSE UNCHANGED <<jobs, insts>>
    /\ del' = 0
    /\ UNCHANGED <<running, workers, execs, smu, cancelled, eRunning, epc, sup,
                   ticks, checks, mode, alerts, agents, now, out, ext, arg, conc>>

----------------------------------------------------------------------------
(* Storage rows and their validators *)

\* a text is a sequence of phrases; the empty text is <<>>
NoText == <<>>

\* a nil error
NoErr == <<>>

CheckTypes == {"http", "ping"}

CheckStatuses == {"up", "down", "error", "timeout"}

AlertStatuses == {"sent", "failed", "pending"}

AgentStatuses == {"online", "offline"}

CheckConditions == {"status_down", "status_timeout", "status_error"}

AgentConditions == {"cpu_usage_high", "memory_usage_high", "disk_usage_high",
                    "agent_offline"}

AlertIDs == 1..NumAlerts

AgentIDs == 1..NumAgents

\* what ValidateAlert accepts: exactly one owner (an absent owner is 0) and
\* a condition type of the owner's kind; the alerts of checks
CheckAlertBodies ==
    {[check_id |-> c, agent_id |-> 0, enabled |-> en, condition_type |-> ct] :
        c \in CheckIDs, en \in BOOLEAN, ct \in CheckConditions}

\* the alerts of agents
AgentAlertBodies ==
    {[check_id |-> 0, agent_id |-> a, enabled |-> en, condition_type |-> ct] :
        a \in AgentIDs, en \in BOOLEAN, ct \in AgentConditions}

AlertRow(id, b) ==
    [id |-> id, check_id |-> b.check_id, agent_id |-> b.agent_id,
     enabled |-> b.enabled, condition_type |-> b.condition_type]

\* the alerts tables with the rows 1..NumAlerts, drawn from bodies
AlertTables(bodies) == {{AlertRow(i, f[i]) : i \in AlertIDs} : f \in [AlertIDs -> bodies]}

\* BeforeCreate of CheckHistory (texts of the model are within the length limit)
ValidateCheckHistory(h) ==
    /\ h.check_id # 0
    /\ h.status \in CheckStatuses

\* BeforeCreate of AlertHistory (texts of the model are within the length limits)
ValidateAlertHistory(h) ==
    /\ h.alert_id # 0
    /\ h.title # NoText
    /\ h.message # NoText
    /\ h.status \in AlertStatuses

----------------------------------------------------------------------------
(* Checkers *)

\* contains(s, substr), on phrases
contains(s, substr) == \E i \in DOMAIN s : s[i] = substr

DetermineErrorStatus(err) ==
    IF contains(err, "timeout") \/ contains(err, "deadline exceeded")
    THEN "timeout"
    ELSE IF \/ contains(err, "connection refused")
            \/ contains(err, "no route to host")
            \/ contains(err, "host unreachable")
            \/ contains(err, "100% packet loss")
         THEN "down"
         ELSE "error"

CreateErrorResult(checkID, status, err) ==
    [check_id |-> checkID, status |-> status, error_message |-> err]

CreateSuccessResult(checkID, message) ==
    [check_id |-> checkID, status |-> "up", error_message |-> message]

\* a nil *storage.CheckHistory
NilResult == [check_id |-> 0, status |-> "nil", error_message |-> NoText]

\* what the network and the ping process can do to a probe
HTTPOutcomes ==
    {[stage |-> "config", err |-> <<"failed to parse config">>],
     [stage |-> "do", err |-> <<"Get", "context", "deadline exceeded">>],
     [stage |-> "do", err |-> <<"Get", "dial tcp", "connection refused">>],
     [stage |-> "do", err |-> <<"Get", "dial tcp", "no such host">>],
     [stage |-> "status", err |-> <<"unexpected status code">>],
     [stage |-> "content", err |-> <<"expected content not found">>],
     [stage |-> "ok", err |-> NoErr]}

PingOutcomes ==
    {[stage |-> "config", err |-> <<"failed to parse config">>, received |-> 0, loss |-> 0],
     [stage |-> "resolve", err |-> <<"failed to resolve hostname">>, received |-> 0, loss |-> 0],
     [stage |-> "exec", err |-> <<"ping", "timeout">>, received |-> 0, loss |-> 0],
     [stage |-> "exec", err |-> <<"ping command failed", "exit status 1">>, received |-> 0, loss |-> 0],
     [stage |-> "output", err |-> NoErr, received |-> 0, loss |-> 100],
     [stage |-> "output", err |-> NoErr, received |-> 1, loss |-> 75],
     [stage |-> "output", err |-> NoErr, received |-> 4, loss |-> 0]}

\* HTTPChecker.Check: every failure returns the classified result AND the error
HTTPCheck(check, io) ==
    IF io.stage = "config"
    THEN [result |-> CreateErrorResult(check.id, DetermineErrorStatus(io.err),
                                       <<"invalid config">> \o io.err),
          err |-> io.err]
    ELSE IF io.stage = "do"
    THEN [result |-> CreateErrorResult(check.id, DetermineErrorStatus(io.err),
                                       <<"request failed">> \o io.err),
          err |-> io.err]
    ELSE IF io.stage \in {"status", "content"}
    THEN [result |-> CreateErrorResult(check.id, DetermineErrorStatus(io.err), io.err),
          err |-> io.err]
    ELSE [result |-> CreateSuccessResult(check.id, NoText), err |-> NoErr]

createPingResult(received, packetLoss) ==
    IF received = 0
    THEN CreateErrorResult(0, "down", <<"100% packet loss">>)
    ELSE IF packetLoss > 50
         THEN CreateErrorResult(0, "down", <<"packet loss">>)
         ELSE CreateSuccessResult(0, <<"packet loss">>)

PingCheck_NoOwner(check, io) ==
    IF io.stage \in {"config", "resolve", "exec"}
    THEN [result |-> CreateErrorResult(check.id, DetermineErrorStatus(io.err), io.err),
          err |-> io.err]
    ELSE [result |-> createPingResult(io.received, io.loss), err |-> NoErr]

\* PingChecker.Check: a ping that ran to the end returns its result, under
\* the id of the check, and no error
PingCheck(check, io) ==
    IF io.stage = "config"
    THEN [result |-> CreateErrorResult(check.id, DetermineErrorStatus(io.err),
                                       <<"invalid config">> \o io.err),
          err |-> io.err]
    ELSE IF io.stage = "resolve"
    THEN [result |-> CreateErrorResult(check.id, DetermineErrorStatus(io.err),
                                       <<"failed to resolve target">> \o io.err),
          err |-> io.err]
    ELSE IF io.stage = "exec"
    THEN [result |-> CreateErrorResult(check.id, DetermineErrorStatus(io.err), io.err),
          err |-> io.err]
    ELSE [result |-> [createPingResult(io.received, io.loss) EXCEPT !.check_id = check.id],
          err |-> NoErr]

\* the outcomes a check of this type can meet
Outcomes(type) ==
    IF type = "http" THEN HTTPOutcomes
    ELSE IF type = "ping" THEN PingOutcomes
    ELSE {[stage |-> "none", err |-> NoErr]}

\* Manager.ExecuteCheck
ManagerExecuteCheck(check, io) ==
    IF check.type \notin CheckTypes
    THEN [result |-> NilResult, err |-> <<"unsupported check type">>]
    ELSE IF check.type = "http" THEN HTTPCheck(check, io)
    ELSE PingCheck(check, io)

----------------------------------------------------------------------------
(* Alerts *)

\* alert.FormatAlertMessage renders the alert data
FormatAlertMessage(alertData) == <<"alert", alertData.status>> \o alertData.error

shouldTriggerAlert_AnyFailure(alert, result) ==
    result.status # "up"

shouldTriggerAlert(alert, result) ==
    IF alert.condition_type = "status_down" THEN result.status = "down"
    ELSE IF alert.condition_type = "status_timeout" THEN result.status = "timeout"
    ELSE IF alert.condition_type = "status_error" THEN result.status = "error"
    ELSE FALSE

\* createAlertHistory: the rows that DB().Create stores; a row the
\* BeforeCreate hook rejects, or the database fails to insert, is only logged
createAlertHistory(alertID, title, message, status, inserted) ==
    LET history == [alert_id |-> alertID, title |-> title,
                    message |-> message, status |-> status]
    IN IF ValidateAlertHistory(history) /\ inserted THEN {history} ELSE {}

\* the alert data processCheckResult builds for an observation
CheckAlertData(check, result) ==
    [monitor_id |-> check.id, status |-> result.status, error |-> result.error_message]

\* one iteration of the loop of processCheckResult
checkAlertRows(alertItem, check, result, sendOK, inserted) ==
    IF ~sendOK
    THEN createAlertHistory(alertItem.id, <<"Alert Failed">>,
                            CheckAlertData(check, result).error, "failed", inserted)
    ELSE createAlertHistory(alertItem.id, <<"Alert:", result.status>>,
                            FormatAlertMessage(CheckAlertData(check, result)),
                            "sent", inserted)

\* Where("check_id = ? AND enabled = ?", check.ID, true)
AlertsOfCheck(c) == {a \in alerts : a.check_id = c /\ a.enabled}

observation_AsClassified(check, r) ==
    IF r.result = NilResult
    THEN [check_id |-> check.id, status |-> "error", error_message |-> r.err]
    ELSE r.result

\* executeCheck, "Create error result": whatever result came with a non-nil
\* error is replaced by an observation of status error
observation(check, r) ==
    IF r.err # NoErr
    THEN [check_id |-> check.id, status |-> "error", error_message |-> r.err]
    ELSE r.result

\* executeCheck, from the probe to the alert history, as one run; the
\* outcome of the probe, of every storage call and of every send is an input
executeCheck(check, io, persisted, loaded) ==
    /\ mode = "alerts"
    /\ out.kind = "none"
    /\ LET r == ManagerExecuteCheck(check, io)
           result == observation(check, r)
           stored == ValidateCheckHistory(result) /\ persisted
           fired == IF stored /\ loaded
                    THEN {a \in AlertsOfCheck(check.id) : shouldTriggerAlert(a, result)}
                    ELSE {}
       IN \E sendFails \in SUBSET {a.id : a \in fired},
             insertFails \in SUBSET {a.id : a \in fired} :
            out' = [kind |-> "check",
                    owner |-> check.id,
                    probe |-> r,
                    db |-> persisted,
                    given |-> result,
                    obs |-> IF stored THEN {result} ELSE {},
                    ret |-> IF stored THEN "nil" ELSE "err",
                    loaded |-> stored /\ loaded,
                    sent |-> {[alert |-> a.id, ok |-> a.id \notin sendFails] : a \in fired},
                    lost |-> insertFails,
                    rows |-> UNION {checkAlertRows(a, check, result,
                                                   a.id \notin sendFails,
                                                   a.id \notin insertFails) : a \in fired}]
    /\ UNCHANGED <<running, workers, jobs, insts, execs, smu, cancelled,
                   eRunning, epc, sup, ticks, checks, mode, alerts, agents, now, del, ext, arg, conc>>

----------------------------------------------------------------------------
(* Agent liveness: processResults, checkOfflineAgents *)

\* an agents row; an agent that has never reported has no last_seen_at
AgentRow(en, st, iv) ==
    [enabled |-> en, status |-> st, interval_seconds |-> iv,
     seen |-> FALSE, last_seen_at |-> 0]

\* the intervals the agents of the model report at
Intervals == {MinInterval, MinInterval + MinInterval}

\* AgentRepository.UpdateLastSeenAt, when metrics of agent a are received
UpdateLastSeenAt(a) ==
    /\ mode \in {"liveness", "race"}
    /\ ~(agents[a].seen /\ agents[a].last_seen_at = now)
    /\ agents' = [agents EXCEPT ![a].seen = TRUE, ![a].last_seen_at = now]
    /\ UNCHANGED <<running, workers, jobs, insts, execs, smu, cancelled, eRunning,
                   epc, sup, ticks, checks, mode, alerts, now, out, del, ext, arg, conc>>

\* time passes, up to the next tick of the ticker of processResults
Elapse ==
    /\ mode \in {"liveness", "race"}
    /\ now + MinInterval <= out.at + TickPeriod
    /\ now + MinInterval <= MaxTime
    /\ now' = now + MinInterval
    /\ UNCHANGED <<running, workers, jobs, insts, execs, smu, cancelled, eRunning,
                   epc, sup, ticks, checks, mode, alerts, agents, out, del, ext, arg, conc>>

\* the offline test that counts an agent at the very limit as offline
isOffline_Inclusive(agent, t) ==
    IF agent.seen
    THEN ~(t - agent.last_seen_at < agent.interval_seconds + GracePeriod)
    ELSE TRUE

\* checkOfflineAgents: isOffline, for an agents row at time t
isOffline(agent, t) ==
    IF agent.seen
    THEN ~(t - agent.last_seen_at <= agent.interval_seconds + GracePeriod)
    ELSE TRUE

\* BeforeCreate of AgentHistory
ValidateAgentHistory(h) ==
    /\ h.agent_id # 0
    /\ h.collect_duration_ms >= 0
    /\ h.is_offline => h.collect_duration_ms = 0

\* the synthetic AgentHistory of an offline agent
offlineHistory(a, t) ==
    [agent_id |-> a, is_offline |-> TRUE, collect_duration_ms |-> 0,
     metrics |-> 0, collected_at |-> t]

\* checkOfflineAgents that records an offline agent only when its status changes
recorded_OnTransition(offline, createFails) ==
    {a \in offline \ createFails : agents[a].status # "offline"}

\* checkOfflineAgents: the offline agents whose AgentHistory row is stored
recorded(offline, createFails) ==
    {a \in offline \ createFails : ValidateAgentHistory(offlineHistory(a, now))}

\* the offline alerts without the condition_type filter
AlertsOfAgent_AnyCondition(a) ==
    {x \in alerts : x.agent_id = a /\ x.enabled}

\* Where("agent_id = ? AND enabled = ? AND condition_type = ?", agent.ID, true, "agent_offline")
AlertsOfAgent(a) ==
    {x \in alerts : x.agent_id = a /\ x.enabled /\ x.condition_type = "agent_offline"}

\* the alert data triggerAgentOfflineAlert builds
AgentAlertData(a) == [monitor_id |-> a, status |-> "down", error |-> NoText]

\* one iteration of the loop of triggerAgentOfflineAlert
agentAlertRows(alertItem, a, sendOK, inserted) ==
    IF ~sendOK
    THEN createAlertHistory(alertItem.id, <<"Agent Offline Alert Failed">>,
                            AgentAlertData(a).error, "failed", inserted)
    ELSE createAlertHistory(alertItem.id, <<"Agent Offline:", "name">>,
                            FormatAlertMessage(AgentAlertData(a)), "sent", inserted)

\* checkOfflineAgents, run by processResults on a tick of its ticker; the
\* outcome of every storage call and of every send is an input
checkOfflineAgents(found, saveFails, createFails, loadFails) ==
    /\ mode \in {"liveness", "offline"}
    /\ IF mode = "offline" THEN out.kind = "none" ELSE now = out.at + TickPeriod
    /\ LET enabled == IF found THEN {a \in DOMAIN agents : agents[a].enabled} ELSE {}
           offline == {a \in enabled : isOffline(agents[a], now)}
           toWrite == {a \in offline : agents[a].status # "offline"}
           created == recorded(offline, createFails)
           fired == UNION {AlertsOfAgent(a) : a \in created \ loadFails}
       IN /\ saveFails \subseteq toWrite
          /\ createFails \subseteq offline
          /\ loadFails \subseteq created
          /\ agents' = [a \in DOMAIN agents |->
                          IF a \in toWrite \ saveFails
                          THEN [agents[a] EXCEPT !.status = "offline"]
                          ELSE agents[a]]
          /\ \E sendFails \in SUBSET {x.id : x \in fired},
                insertFails \in SUBSET {x.id : x \in fired} :
               out' = [kind |-> "tick",
                       at |-> now,
                       before |-> agents,
                       found |-> found,
                       offline |-> offline,
                       saveFails |-> saveFails,
                       createFails |-> createFails,
                       loadFails |-> loadFails,
                       histories |-> {offlineHistory(a, now) : a \in created},
                       sent |-> {[alert |-> x.id, ok |-> x.id \notin sendFails] : x \in fired},
                       lost |-> insertFails,
                       rows |-> UNION {agentAlertRows(x, x.agent_id,
                                                      x.id \notin sendFails,
                                                      x.id \notin insertFails) : x \in fired}]
    /\ UNCHANGED <<running, workers, jobs, insts, execs, smu, cancelled, eRunning,
                   epc, sup, ticks, checks, mode, alerts, now, del, ext, arg, conc>>

----------------------------------------------------------------------------
(* Agent liveness: a tick that runs while reports arrive *)

\* the slice Find(&agents) fills: the enabled rows as they are at that
\* moment, in the order of their ids
RECURSIVE Loaded(_)
Loaded(ids) ==
    IF ids = {} THEN <<>>
    ELSE LET a == CHOOSE x \in ids : \A y \in ids : x <= y
         IN <<[id |-> a, row |-> agents[a]]>> \o Loaded(ids \ {a})

\* checkOfflineAgents up to its loop: the rows are loaded, now is taken
offlineFind(found) ==
    /\ mode = "race"
    /\ snap = <<>>
    /\ now = out.at + TickPeriod
    /\ snap' = [at |-> now,
                rest |-> IF found
                         THEN Loaded({a \in DOMAIN agents : agents[a].enabled})
                         ELSE <<>>]
    /\ out' = [kind |-> "find", at |-> now]
    /\ UNCHANGED <<running, workers, jobs, insts, execs, smu, cancelled, eRunning, epc,
                   sup, ticks, checks, mode, alerts, agents, now, del, ext, arg,
                   client, calls>>

\* e.storage.DB().Save(&agent): every column of the row is written from the struct
SaveAgent(id, agent) == [agents EXCEPT ![id] = agent]

\* one iteration of the loop of checkOfflineAgents, on the copy of the row
\* that Find loaded
offlineIteration(saved, created, loaded) ==
    /\ mode = "race"
    /\ snap # <<>>
    /\ snap.rest # <<>>
    /\ LET id == Head(snap.rest).id
           agent == Head(snap.rest).row
           offline == isOffline(agent, snap.at)
           toWrite == offline /\ agent.status # "offline"
           history == offlineHistory(id, snap.at)
           stored == offline /\ created /\ ValidateAgentHistory(history)
           fired == IF stored /\ loaded THEN AlertsOfAgent(id) ELSE {}
       IN /\ (~toWrite => saved)
          /\ (~offline => created)
          /\ (~stored => loaded)
          /\ agents' = IF toWrite /\ saved
                       THEN SaveAgent(id, [agent EXCEPT !.status = "offline"])
                       ELSE agents
          /\ \E sendFails \in SUBSET {x.id : x \in fired},
                insertFails \in SUBSET {x.id : x \in fired} :
               out' = [kind |-> "agent",
                       at |-> out.at,
                       agent |-> id,
                       read |-> agent,
                       offline |-> offline,
                       histories |-> IF stored THEN {history} ELSE {},
                       sent |-> {[alert |-> x.id, ok |-> x.id \notin sendFails] : x \in fired},
                       rows |-> UNION {agentAlertRows(x, id, x.id \notin sendFails,
                                                      x.id \notin insertFails) : x \in fired}]
    /\ snap' = [snap EXCEPT !.rest = Tail(@)]
    /\ UNCHANGED <<running, workers, jobs, insts, execs, smu, cancelled, eRunning, epc,
                   sup, ticks, checks, mode, alerts, now, del, ext, arg, client, calls>>

\* checkOfflineAgents returns after the last row
offlineReturn ==
    /\ mode = "race"
    /\ snap # <<>>
    /\ snap.rest = <<>>
    /\ snap' = <<>>
    /\ UNCHANGED <<running, workers, jobs, insts, execs, smu, cancelled, eRunning, epc,
                   sup, ticks, checks, mode, alerts, agents, now, out, del, ext, arg,
                   client, calls>>

----------------------------------------------------------------------------
(* Engine and REST handlers: the check record each job probes *)

\* interval_seconds values the handlers are given; ValidateCheck accepts both
CheckIntervals == {SampleInterval, SampleInterval + SampleInterval}

\* a storage.Check: its id, enabled flag and interval_seconds
CheckRow(id, en, iv) == [id |-> id, enabled |-> en, interval |-> iv]

\* the rows a query "enabled = true" returns, in the order of the ids
RECURSIVE EnabledChecks(_)
EnabledChecks(t) ==
    IF t = <<>> THEN <<>>
    ELSE LET r == t[Len(t)]
             front == EnabledChecks(SubSeq(t, 1, Len(t) - 1))
         IN IF r.exists /\ r.enabled
            THEN Append(front, CheckRow(Len(t), r.enabled, r.interval))
            ELSE front

\* the memory a pointer to a storage.Check refers to: its value now and the
\* value it held before the last assignment
Cell(check) == [val |-> check, prev |-> check]

\* Engine.Start up to the call of scheduler.Start: take Engine.mu, load the
\* enabled checks; a failed query returns the error
StartLoad(res) ==
    /\ mode = "sync"
    /\ loop = <<>>
    /\ ~eRunning
    /\ \E loaded \in BOOLEAN :
         IF loaded
         THEN /\ res = "none"
              /\ loop' = [rest |-> EnabledChecks(table), cell |-> 0,
                          loaded |-> {EnabledChecks(table)[k].id :
                                         k \in DOMAIN EnabledChecks(table)}]
         ELSE /\ res = "err"
              /\ UNCHANGED loop
    /\ UNCHANGED <<running, workers, jobs, insts, execs, smu, cancelled, eRunning,
                   epc, sup, ticks, checks, mode, alerts, agents, now, out, del, arg, conc,
                   loopvar, table, heap, sched>>

\* the variable `check` of one iteration of "for _, check := range allChecks":
\* the toolchain gives every iteration a variable of its own, or all
\* iterations the same one; the result is the memory and the pointer &check
rangeVar(check) ==
    IF loopvar = "shared" /\ loop.cell # 0
    THEN <<[heap EXCEPT ![loop.cell] = [val |-> check, prev |-> @.val]], loop.cell>>
    ELSE <<Append(heap, Cell(check)), Len(heap) + 1>>

\* Engine.scheduleCheck(check) with the scheduler running: the job takes its ID
\* and Interval from *check now, its Task keeps the pointer; AddJob refuses an
\* ID that is already in the map
scheduleCheck(h, c) ==
    IF h[c].val.id \in DOMAIN sched THEN sched
    ELSE MapPut(sched, h[c].val.id, [Interval |-> h[c].val.interval, Task |-> c])

\* Engine.Start, one iteration of "Schedule all checks": scheduleCheck(&check)
StartSchedule ==
    /\ mode = "sync"
    /\ loop # <<>>
    /\ loop.rest # <<>>
    /\ LET v == rangeVar(Head(loop.rest))
       IN /\ heap' = v[1]
          /\ sched' = scheduleCheck(v[1], v[2])
          /\ loop' = [loop EXCEPT !.rest = Tail(@), !.cell = v[2]]
    /\ UNCHANGED <<running, workers, jobs, insts, execs, smu, cancelled, eRunning,
                   epc, sup, ticks, checks, mode, alerts, agents, now, out, del, arg, conc,
                   loopvar, table>>

\* Engine.Start after the loop: e.running = true, return nil
StartDone ==
    /\ mode = "sync"
    /\ loop # <<>>
    /\ loop.rest = <<>>
    /\ eRunning' = TRUE
    /\ loop' = <<>>
    /\ UNCHANGED <<running, workers, jobs, insts, execs, smu, cancelled,
                   epc, sup, ticks, checks, mode, alerts, agents, now, out, del, arg, conc,
                   loopvar, table, heap, sched>>

\* Handler.Create: with the engine running Engine.AddCheck stores the check and
\* schedules it, otherwise the handler stores it itself; the id is the next
\* of the autoincrement column. IsRunning and AddCheck wait for Engine.mu.
HandlerCreate(en, iv, saved) ==
    /\ mode = "sync"
    /\ loop = <<>>
    /\ Len(table) < NumChecks
    /\ IF ~saved
       THEN UNCHANGED <<table, heap, sched>>
       ELSE LET check == CheckRow(Len(table) + 1, en, iv)
                h == Append(heap, Cell(check))
            IN /\ table' = Append(table, [exists |-> TRUE, enabled |-> en, interval |-> iv])
               /\ IF eRunning
                  THEN heap' = h /\ sched' = scheduleCheck(h, Len(h))
                  ELSE UNCHANGED <<heap, sched>>
    /\ UNCHANGED <<running, workers, jobs, insts, execs, smu, cancelled, eRunning,
                   epc, sup, ticks, checks, mode, alerts, agents, now, out, del, arg, conc,
                   loopvar, loop>>

\* Handler.Update: read the row, apply the fields of the request, save it
HandlerUpdate(id, en, iv, saved) ==
    /\ mode = "sync"
    /\ id \in DOMAIN table
    /\ table[id].exists
    /\ IF saved
       THEN table' = [table EXCEPT ![id] = [exists |-> TRUE, enabled |-> en, interval |-> iv]]
       ELSE UNCHANGED table
    /\ UNCHANGED <<running, workers, jobs, insts, execs, smu, cancelled, eRunning,
                   epc, sup, ticks, checks, mode, alerts, agents, now, out, del, arg, conc,
                   loopvar, heap, sched, loop>>

\* Engine.RemoveCheckFromScheduler(id): RemoveJob of the job of the check
RemoveCheckJob(id) ==
    IF id \in DOMAIN sched THEN MapDel(sched, id) ELSE sched

\* Handler.Delete: delete the row, then with the engine running remove the job
HandlerDelete(id, deleted) ==
    /\ mode = "sync"
    /\ loop = <<>>
    /\ id \in DOMAIN table
    /\ table[id].exists
    /\ IF deleted
       THEN /\ table' = [table EXCEPT ![id].exists = FALSE]
            /\ sched' = IF eRunning THEN RemoveCheckJob(id) ELSE sched
       ELSE UNCHANGED <<table, sched>>
    /\ UNCHANGED <<running, workers, jobs, insts, execs, smu, cancelled, eRunning,
                   epc, sup, ticks, checks, mode, alerts, agents, now, out, del, arg, conc,
                   loopvar, heap, loop>>

\* what a read of the struct behind pointer c can see: its value, or, while
\* the loop of Engine.Start may be assigning to it, any mix of the fields of
\* its value and of the value before
Deref(c) ==
    IF loop # <<>> /\ loopvar = "shared" /\ loop.cell = c
    THEN {CheckRow(a.id, b.enabled, d.interval) :
             a \in {heap[c].val, heap[c].prev},
             b \in {heap[c].val, heap[c].prev},
             d \in {heap[c].val, heap[c].prev}}
    ELSE {heap[c].val}

\* the goroutine of job check_<id> runs its Task: executeCheck(ctx, check)
\* probes the struct its closure points to
JobProbe(id) ==
    /\ mode = "sync"
    /\ id \in DOMAIN sched
    /\ \E check \in Deref(sched[id].Task) :
         out' = [kind |-> "probe", job |-> id, interval |-> sched[id].Interval,
                 check |-> check]
    /\ UNCHANGED <<running, workers, jobs, insts, execs, smu, cancelled, eRunning,
                   epc, sup, ticks, checks, mode, alerts, agents, now, del, ext, arg, conc>>

----------------------------------------------------------------------------
(* Check configurations: the storage validators and the probes' parsers *)

\* hard-coded defaults and limits of the validators
DefaultStatus == 200
MinStatus == 100
MaxStatus == 599
DefaultCount == 3
DefaultPingInterval == 300
DefaultSize == 56
MaxCount == 10
MinPingInterval == 100
MaxPingInterval == 10000
MinSize == 8
MaxSize == 1472

ValidMethods == {"GET", "POST", "PUT", "DELETE", "HEAD", "OPTIONS", "PATCH"}

\* strings.ToUpper on the method names of the model
ToUpper(m) == IF m = "get" THEN "GET" ELSE IF m = "post" THEN "POST" ELSE m

\* a map[string]string; a nil map reads as the empty map
EmptyMap == [k \in {} |-> ""]

HeaderKeys == {"Accept"}

HeaderMaps == {EmptyMap} \cup {[k \in HeaderKeys |-> v] : v \in {"user", "installed"}}

\* for k, v := range src { dst[k] = v }
Merge(dst, src) ==
    [k \in DOMAIN dst \cup DOMAIN src |-> IF k \in DOMAIN src THEN src[k] ELSE dst[k]]

HTTPFields == {"method", "headers", "body", "expected_status", "expected_content",
               "follow_redirects", "verify_ssl"}

\* a JSON text for an HTTP config: the keys it has and their values; the
\* value of "headers" can be null. The empty text and {} have no keys.
HTTPDoc(has, method, hnull, headers, body, status, content, follow, verify) ==
    [has |-> has, method |-> method, hnull |-> hnull, headers |-> headers,
     body |-> body, expected_status |-> status, expected_content |-> content,
     follow_redirects |-> follow, verify_ssl |-> verify]

\* json.Marshal of an HTTPCheckConfig: every field is written, a map as an
\* object with its keys in order
MarshalHTTP(cfg) ==
    HTTPDoc(HTTPFields, cfg.method, FALSE, cfg.headers, cfg.body, cfg.expected_status,
            cfg.expected_content, cfg.follow_redirects, cfg.verify_ssl)

\* json.Unmarshal of the text into cfg: a key of the text replaces the field,
\* an object is merged into the map cfg holds, null makes the map nil
UnmarshalHTTP(doc, cfg) ==
    [method |-> IF "method" \in doc.has THEN doc.method ELSE cfg.method,
     headers |-> IF "headers" \notin doc.has THEN cfg.headers
                 ELSE IF doc.hnull THEN EmptyMap
                 ELSE Merge(cfg.headers, doc.headers),
     body |-> IF "body" \in doc.has THEN doc.body ELSE cfg.body,
     expected_status |-> IF "expected_status" \in doc.has THEN doc.expected_status
                         ELSE cfg.expected_status,
     expected_content |-> IF "expected_content" \in doc.has THEN doc.expected_content
                          ELSE cfg.expected_content,
     follow_redirects |-> IF "follow_redirects" \in doc.has THEN doc.follow_redirects
                          ELSE cfg.follow_redirects,
     verify_ssl |-> IF "verify_ssl" \in doc.has THEN doc.verify_ssl ELSE cfg.verify_ssl]

\* ValidateHTTPCheckConfig, "Start with safe defaults", "Apply custom defaults"
HTTPWithDefaults(defaults) ==
    [method |-> IF defaults.method # "" THEN defaults.method ELSE "GET",
     headers |-> Merge(EmptyMap, defaults.headers),
     body |-> defaults.body,
     expected_status |-> IF defaults.expected_status # 0 THEN defaults.expected_status
                         ELSE DefaultStatus,
     expected_content |-> defaults.expected_content,
     follow_redirects |-> defaults.follow_redirects,
     verify_ssl |-> defaults.verify_ssl]

\* the result of a validator or parser that rejected its input
Rejected == [ok |-> FALSE]

\* ValidateHTTPCheckConfig: defaults, then the user's JSON, then the checks,
\* then the canonical JSON. The texts of the model are within the length limits.
ValidateHTTPCheckConfig(doc, defaults) ==
    LET cfg == UnmarshalHTTP(doc, HTTPWithDefaults(defaults))
        method == ToUpper(cfg.method)
    IN IF method \notin ValidMethods THEN Rejected
       ELSE IF cfg.expected_status < MinStatus \/ cfg.expected_status > MaxStatus
       THEN Rejected
       ELSE IF "" \in DOMAIN cfg.headers THEN Rejected
       ELSE [ok |-> TRUE, config |-> MarshalHTTP([cfg EXCEPT !.method = method])]

\* HTTPChecker.parseConfig: the installed defaults, over them the fields of
\* the stored config that are not zero values, the two flags always
HTTPParseConfig(doc, defaults) ==
    LET storageConfig == UnmarshalHTTP(doc, [method |-> "", headers |-> EmptyMap,
                             body |-> NoText, expected_status |-> 0,
                             expected_content |-> NoText,
                             follow_redirects |-> FALSE, verify_ssl |-> FALSE])
        cfg == IF doc.has = {}
               THEN [method |-> defaults.method,
                     headers |-> Merge(EmptyMap, defaults.headers),
                     body |-> defaults.body,
                     expected_status |-> defaults.expected_status,
                     expected_content |-> defaults.expected_content,
                     follow_redirects |-> defaults.follow_redirects,
                     verify_ssl |-> defaults.verify_ssl]
               ELSE [method |-> IF storageConfig.method # ""
                                THEN ToUpper(storageConfig.method) ELSE defaults.method,
                     headers |-> Merge(defaults.headers, storageConfig.headers),
                     body |-> IF storageConfig.body # NoText THEN storageConfig.body
                              ELSE defaults.body,
                     expected_status |-> IF storageConfig.expected_status # 0
                                         THEN storageConfig.expected_status
                                         ELSE defaults.expected_status,
                     expected_content |-> IF storageConfig.expected_content # NoText
                                          THEN storageConfig.expected_content
                                          ELSE defaults.expected_content,
                     follow_redirects |-> storageConfig.follow_redirects,
                     verify_ssl |-> storageConfig.verify_ssl]
    IN IF cfg.method \notin ValidMethods THEN Rejected
       ELSE IF cfg.expected_status < MinStatus \/ cfg.expected_status > MaxStatus
       THEN Rejected
       ELSE [ok |-> TRUE, cfg |-> cfg]

PingFields == {"count", "interval", "size"}

\* a JSON text for a ping config
PingDoc(has, count, interval, size) ==
    [has |-> has, count |-> count, interval |-> interval, size |-> size]

UnmarshalPing(doc, cfg) ==
    [count |-> IF "count" \in doc.has THEN doc.count ELSE cfg.count,
     interval |-> IF "interval" \in doc.has THEN doc.interval ELSE cfg.interval,
     size |-> IF "size" \in doc.has THEN doc.size ELSE cfg.size]

\* ValidatePingCheckConfig
ValidatePingCheckConfig(doc, defaults) ==
    LET cfg == UnmarshalPing(doc,
                   [count |-> IF defaults.count # 0 THEN defaults.count ELSE DefaultCount,
                    interval |-> IF defaults.interval # 0 THEN defaults.interval
                                 ELSE DefaultPingInterval,
                    size |-> IF defaults.size # 0 THEN defaults.size ELSE DefaultSize])
    IN IF cfg.count <= 0 \/ cfg.count > MaxCount THEN Rejected
       ELSE IF cfg.interval < MinPingInterval \/ cfg.interval > MaxPingInterval
       THEN Rejected
       ELSE IF cfg.size < MinSize \/ cfg.size > MaxSize THEN Rejected
       ELSE [ok |-> TRUE, config |-> PingDoc(PingFields, cfg.count, cfg.interval, cfg.size)]

\* PingChecker.parseConfig
PingParseConfig(doc, defaults) ==
    LET storageConfig == UnmarshalPing(doc, [count |-> 0, interval |-> 0, size |-> 0])
        cfg == IF doc.has = {} THEN defaults
               ELSE [count |-> IF storageConfig.count # 0 THEN storageConfig.count
                               ELSE defaults.count,
                     interval |-> IF storageConfig.interval # 0 THEN storageConfig.interval
                                  ELSE defaults.interval,
                     size |-> IF storageConfig.size # 0 THEN storageConfig.size
                              ELSE defaults.size]
    IN IF cfg.count <= 0 \/ cfg.count > MaxCount THEN Rejected
       ELSE IF cfg.interval < MinPingInterval \/ cfg.interval > MaxPingInterval
       THEN Rejected
       ELSE IF cfg.size < MinSize \/ cfg.size > MaxSize THEN Rejected
       ELSE [ok |-> TRUE, cfg |-> cfg]

\* a key of a JSON text: absent, or present with one of the values
Key(name, present) == IF present THEN {name} ELSE {}

Opt(values, filler) == {<<FALSE, filler>>} \cup {<<TRUE, v>> : v \in values}

\* the HTTP configs a user can send
HTTPDocs ==
    {HTTPDoc(Key("method", m[1])
             \cup Key("headers", h[1])
             \cup Key("body", b[1])
             \cup Key("expected_status", st[1])
             \cup Key("expected_content", c[1])
             \cup Key("follow_redirects", f[1])
             \cup Key("verify_ssl", v[1]),
             m[2], h[2][1], h[2][2], b[2], st[2], c[2], f[2], v[2]) :
        m \in Opt({"get", "POST", "TRACE"}, ""),
        h \in Opt({<<TRUE, EmptyMap>>} \cup {<<FALSE, hm>> : hm \in HeaderMaps \ {[k \in HeaderKeys |-> "installed"]}},
                  <<FALSE, EmptyMap>>),
        b \in Opt({NoText, <<"payload">>}, NoText),
        st \in Opt({0, DefaultStatus + 1, MaxStatus + 1}, 0),
        c \in Opt({NoText, <<"ok">>}, NoText),
        f \in Opt(BOOLEAN, FALSE),
        v \in Opt({FALSE}, FALSE)}

\* the HTTP defaults an operator can install (checks.http.* of the
\* configuration file)
HTTPDefaults ==
    [method : {"", "POST"},
     headers : {EmptyMap, [k \in HeaderKeys |-> "installed"]},
     body : {NoText, <<"installed">>},
     expected_status : {DefaultStatus},
     expected_content : {NoText, <<"installed">>},
     follow_redirects : BOOLEAN,
     verify_ssl : {TRUE}]

\* the ping configs a user can send
PingDocs ==
    {PingDoc(Key("count", n[1])
             \cup Key("interval", i[1])
             \cup Key("size", z[1]),
             n[2], i[2], z[2]) :
        n \in Opt({0, 1, MaxCount, MaxCount + 1}, 0),
        i \in Opt({0, MinPingInterval - 1, MinPingInterval, MaxPingInterval,
                   MaxPingInterval + 1}, 0),
        z \in Opt({0, MinSize - 1, MinSize, MaxSize, MaxSize + 1}, 0)}

\* the ping defaults an operator can install (checks.ping.*)
PingDefaults ==
    [count : {DefaultCount, MaxCount}, interval : {DefaultPingInterval, MaxPingInterval},
     size : {DefaultSize}]

\* a check's config on its way from the request to the probe: the validating
\* hook canonicalizes it on Create, again on every later Save, and the probe
\* parses what is stored
Canonicalize(first, second, parsed) ==
    /\ mode = "config"
    /\ out.kind = "none"
    /\ out' = [kind |-> "config", type |-> arg.kind, first |-> first,
               second |-> IF first.ok THEN second ELSE Rejected,
               parsed |-> IF first.ok THEN parsed ELSE Rejected]
    /\ UNCHANGED <<running, workers, jobs, insts, execs, smu, cancelled, eRunning,
                   epc, sup, ticks, checks, mode, alerts, agents, now, del, ext, arg, conc>>

\* an HTTP config through ValidateHTTPCheckConfig, twice, and parseConfig
CanonicalizeHTTP ==
    /\ arg.kind = "http"
    /\ LET first == ValidateHTTPCheckConfig(arg.doc, arg.defaults)
       IN Canonicalize(first,
                       ValidateHTTPCheckConfig(first.config, arg.defaults),
                       HTTPParseConfig(first.config, arg.defaults))

\* a ping config through ValidatePingCheckConfig, twice, and parseConfig
CanonicalizePing ==
    /\ arg.kind = "ping"
    /\ LET first == ValidatePingCheckConfig(arg.doc, arg.defaults)
       IN Canonicalize(first,
                       ValidatePingCheckConfig(first.config, arg.defaults),
                       PingParseConfig(first.config, arg.defaults))

----------------------------------------------------------------------------
(* Validators of checks and alerts *)

\* limits of ValidateCheck and ValidateAlert
MinCheckInterval == 5
MaxCheckInterval == 86400
MinCheckTimeout == 1
MaxCheckTimeout == 300
MaxConditionValue == 100

\* the validator's defaults when none are installed (globalHTTPDefaults and
\* globalPingDefaults nil): zero values leave the hard-coded defaults in force
NoHTTPDefaults ==
    [method |-> "", headers |-> EmptyMap, body |-> NoText, expected_status |-> 0,
     expected_content |-> NoText, follow_redirects |-> TRUE, verify_ssl |-> TRUE]

NoPingDefaults == [count |-> 0, interval |-> 0, size |-> 0]

\* validateCheckTarget on the targets of the model: a host name with a blank
\* is no URL host and no DNS name
validateCheckTarget(type, target) == "with blank" \notin {target[k] : k \in DOMAIN target}

\* validateCheckConfig: the validator of the check's type, with the global defaults
validateCheckConfig(type, config) ==
    IF type = "http" THEN ValidateHTTPCheckConfig(config, NoHTTPDefaults)
    ELSE IF type = "ping" THEN ValidatePingCheckConfig(config, NoPingDefaults)
    ELSE Rejected

\* ValidateCheck: the first rule that fails rejects the check, an accepted
\* check carries the canonical config. Names are within the length limit.
ValidateCheck_TimeoutUpToInterval(check) ==
    IF check.name = NoText THEN Rejected
    ELSE IF check.type \notin CheckTypes THEN Rejected
    ELSE IF check.target = NoText THEN Rejected
    ELSE IF ~validateCheckTarget(check.type, check.target) THEN Rejected
    ELSE IF check.interval < MinCheckInterval THEN Rejected
    ELSE IF check.interval > MaxCheckInterval THEN Rejected
    ELSE IF check.timeout < MinCheckTimeout THEN Rejected
    ELSE IF check.timeout > MaxCheckTimeout THEN Rejected
    ELSE IF check.timeout > check.interval THEN Rejected
    ELSE validateCheckConfig(check.type, check.config)

ValidateCheck(check) ==
    IF check.name = NoText THEN Rejected
    ELSE IF check.type \notin CheckTypes THEN Rejected
    ELSE IF check.target = NoText THEN Rejected
    ELSE IF ~validateCheckTarget(check.type, check.target) THEN Rejected
    ELSE IF check.interval < MinCheckInterval THEN Rejected
    ELSE IF check.interval > MaxCheckInterval THEN Rejected
    ELSE IF check.timeout < MinCheckTimeout THEN Rejected
    ELSE IF check.timeout > MaxCheckTimeout THEN Rejected
    ELSE IF check.timeout >= check.interval THEN Rejected
    ELSE validateCheckConfig(check.type, check.config)

\* Check.BeforeCreate and the insert it guards: the row is stored, with the
\* canonical config, only if ValidateCheck accepts it and storage takes it
BeforeCreate(saved) ==
    /\ mode = "validate"
    /\ arg.kind = "check"
    /\ out.kind = "none"
    /\ LET r == ValidateCheck(arg.check)
       IN out' = [kind |-> "check", accepted |-> r.ok,
                  stored |-> IF r.ok /\ saved
                             THEN {[arg.check EXCEPT !.config = r.config]} ELSE {}]
    /\ UNCHANGED <<running, workers, jobs, insts, execs, smu, cancelled, eRunning,
                   epc, sup, ticks, checks, mode, alerts, agents, now, del, ext, arg, conc>>

AlertTypes == {"telegram", "bale", "email", "webhook"}

\* validateAlertConditionType: the condition must be one of the owner's
validateAlertConditionType_AnyOwner(conditionType, isCheckAlert) ==
    conditionType \in CheckConditions \cup AgentConditions

validateAlertConditionType(conditionType, isCheckAlert) ==
    IF isCheckAlert THEN conditionType \in CheckConditions
    ELSE conditionType \in AgentConditions

needsConditionValue(conditionType) ==
    conditionType \in {"cpu_usage_high", "memory_usage_high", "disk_usage_high"}

\* validateAlertConfig on the configs of the model: the empty config, or a
\* text that is no JSON
validateAlertConfig(alertType, config) == config = NoText

\* ValidateAlert; a nil CheckID or AgentID is 0, a nil ConditionValue is <<>>
ValidateAlert(alert) ==
    LET hasCheck == alert.check_id # 0
        hasAgent == alert.agent_id # 0
    IN IF ~hasCheck /\ ~hasAgent THEN FALSE
       ELSE IF hasCheck /\ hasAgent THEN FALSE
       ELSE IF alert.type \notin AlertTypes THEN FALSE
       ELSE IF ~validateAlertConditionType(alert.condition_type, hasCheck) THEN FALSE
       ELSE IF needsConditionValue(alert.condition_type)
               /\ (\/ alert.condition_value = <<>>
                   \/ alert.condition_value[1] < 0
                   \/ alert.condition_value[1] > MaxConditionValue) THEN FALSE
       ELSE validateAlertConfig(alert.type, alert.config)

\* Alert.Validate, as the hooks of the alerts table call it
AlertValidate ==
    /\ mode = "validate"
    /\ arg.kind = "alert"
    /\ out.kind = "none"
    /\ out' = [kind |-> "alert", accepted |-> ValidateAlert(arg.alert)]
    /\ UNCHANGED <<running, workers, jobs, insts, execs, smu, cancelled, eRunning,
                   epc, sup, ticks, checks, mode, alerts, agents, now, del, ext, arg, conc>>

\* the checks a request can carry
CheckInputs ==
    [name : {NoText, <<"api">>},
     type : CheckTypes \cup {"dns"},
     target : {NoText, <<"example.org">>, <<"with blank">>},
     interval : {MinCheckInterval - 1, MinCheckInterval, MinCheckInterval + 1,
                 SampleInterval, MaxCheckTimeout, MaxCheckTimeout + 1,
                 MaxCheckInterval, MaxCheckInterval + 1},
     timeout : {MinCheckTimeout - 1, MinCheckTimeout, MinCheckInterval - 1,
                MinCheckInterval, SampleInterval - 1, SampleInterval,
                MaxCheckTimeout, MaxCheckTimeout + 1},
     config : {PingDoc({}, 0, 0, 0), PingDoc({"count"}, MaxCount + 1, 0, 0)}]

\* the alerts a request can carry
AlertInputs ==
    [check_id : {0} \cup CheckIDs,
     agent_id : {0} \cup AgentIDs,
     type : {"telegram", "sms"},
     condition_type : CheckConditions \cup AgentConditions \cup {"latency_high"},
     condition_value : {<<>>, <<-1>>, <<0>>, <<MaxConditionValue>>, <<MaxConditionValue + 1>>},
     config : {NoText, <<"not json">>}]

----------------------------------------------------------------------------
(* HTTP probe: the request and validateResponse *)

\* the buffer validateResponse reads the body into, in bytes
ReadBuffer == 1024

\* strings.Contains on texts: the phrases of substr appear in s in a row
stringsContains(s, substr) ==
    \E i \in 1..(Len(s) - Len(substr) + 1) : SubSeq(s, i, i + Len(substr) - 1) = substr

\* a result with its StatusCode; a nil *int is <<>>
WithStatusCode(result, statusCode) ==
    [check_id |-> result.check_id, status |-> result.status,
     error_message |-> result.error_message, status_code |-> statusCode]

\* the bodies a server sends, each phrase PhraseBytes bytes long
Bodies ==
    UNION {[1..n -> {"ok", "timeout", "maintenance"}] : n \in 0..(ReadBuffer \div PhraseBytes) + 1}

\* what the network does to a request: an error of client.Do, or a response
\* of which the one Read of validateResponse delivers the first read phrases
HTTPExchanges ==
    {[err |-> e, StatusCode |-> 0, body |-> <<>>, read |-> 0] :
        e \in {<<"Get", "context", "deadline exceeded">>,
               <<"Get", "dial tcp", "connection refused">>,
               <<"Get", "dial tcp", "lookup", "no such host">>}}
    \cup {[err |-> NoErr, StatusCode |-> c, body |-> b, read |-> n] :
            c \in {DefaultStatus, DefaultStatus + 1, 500}, b \in Bodies,
            n \in 0..(ReadBuffer \div PhraseBytes)}

\* validateResponse: the status code, then the expected content in what one
\* Read of at most ReadBuffer bytes returned
validateResponse(checkID, resp, cfg) ==
    IF resp.StatusCode # cfg.expected_status
    THEN LET err == <<"unexpected status code">>
         IN [result |-> WithStatusCode(CreateErrorResult(checkID, DetermineErrorStatus(err), err),
                                       <<resp.StatusCode>>),
             err |-> err]
    ELSE IF /\ cfg.expected_content # NoText
            /\ ~stringsContains(SubSeq(resp.body, 1, Min(resp.read, Len(resp.body))),
                                cfg.expected_content)
    THEN LET err == <<"expected content not found">> \o cfg.expected_content
         IN [result |-> WithStatusCode(CreateErrorResult(checkID, DetermineErrorStatus(err), err),
                                       <<resp.StatusCode>>),
             err |-> err]
    ELSE [result |-> WithStatusCode(CreateSuccessResult(checkID, NoText), <<resp.StatusCode>>),
          err |-> NoErr]

\* HTTPChecker.Check from client.Do on, for a config that parsed
HTTPRespond ==
    /\ mode = "probe"
    /\ out.kind = "none"
    /\ LET r == IF arg.io.err # NoErr
                THEN [result |-> WithStatusCode(
                                     CreateErrorResult(arg.check, DetermineErrorStatus(arg.io.err),
                                                       <<"request failed">> \o arg.io.err), <<>>),
                      err |-> arg.io.err]
                ELSE validateResponse(arg.check, arg.io, arg.cfg)
       IN out' = [kind |-> "http", result |-> r.result, err |-> r.err]
    /\ UNCHANGED <<running, workers, jobs, insts, execs, smu, cancelled, eRunning,
                   epc, sup, ticks, checks, mode, alerts, agents, now, del, ext, arg, conc>>

----------------------------------------------------------------------------
(* HTTP probe: the client the checks of all workers share *)

\* NewHTTPChecker: client: &http.Client{}, no timeout and the default
\* redirect policy; the manager registers this one checker for every HTTP check
NewClient == [Timeout |-> 0, CheckRedirect |-> <<>>]

\* the workers that can be inside HTTPChecker.Check at the same time
Callers == 1..WorkerCount

\* the fields of an HTTPConfig that configureClient reads
ClientConfigs ==
    [timeout_seconds : {MinCheckTimeout, MaxCheckTimeout}, follow_redirects : BOOLEAN]

\* one field of the call of worker w changes
CallStep(w, field, value) == calls' = [calls EXCEPT ![w] = [@ EXCEPT ![field] = value]]

\* HTTPChecker.Check up to configureClient: parseConfig has returned cfg
CheckEnter(w, cfg) ==
    /\ mode = "client"
    /\ w \notin DOMAIN calls
    /\ calls' = [x \in DOMAIN calls \cup {w} |->
                   IF x = w
                   THEN [pc |-> "Timeout", cfg |-> cfg, timeout |-> <<>>, policy |-> <<>>]
                   ELSE calls[x]]
    /\ UNCHANGED <<running, workers, jobs, insts, execs, smu, cancelled, eRunning, epc,
                   sup, ticks, checks, mode, alerts, agents, now, out, del, ext, arg,
                   client, snap>>

\* configureClient: h.client.Timeout = time.Duration(cfg.TimeoutSeconds) * time.Second
configureClientTimeout(w) ==
    /\ mode = "client"
    /\ w \in DOMAIN calls
    /\ calls[w].pc = "Timeout"
    /\ client' = [client EXCEPT !.Timeout = calls[w].cfg.timeout_seconds]
    /\ CallStep(w, "pc", "CheckRedirect")
    /\ UNCHANGED <<running, workers, jobs, insts, execs, smu, cancelled, eRunning, epc,
                   sup, ticks, checks, mode, alerts, agents, now, out, del, ext, arg, snap>>

\* configureClient: h.client.CheckRedirect = func(...) over the cfg of this call
configureClientCheckRedirect(w) ==
    /\ mode = "client"
    /\ w \in DOMAIN calls
    /\ calls[w].pc = "CheckRedirect"
    /\ client' = [client EXCEPT !.CheckRedirect = <<calls[w].cfg.follow_redirects>>]
    /\ CallStep(w, "pc", "Do")
    /\ UNCHANGED <<running, workers, jobs, insts, execs, smu, cancelled, eRunning, epc,
                   sup, ticks, checks, mode, alerts, agents, now, out, del, ext, arg, snap>>

\* h.client.Do(req): the request leaves with the deadline of the Timeout the
\* client holds at that moment
clientDo(w) ==
    /\ mode = "client"
    /\ w \in DOMAIN calls
    /\ calls[w].pc = "Do"
    /\ calls' = [calls EXCEPT ![w] = [@ EXCEPT !.pc = "sent", !.timeout = <<client.Timeout>>]]
    /\ UNCHANGED <<running, workers, jobs, insts, execs, smu, cancelled, eRunning, epc,
                   sup, ticks, checks, mode, alerts, agents, now, out, del, ext, arg,
                   client, snap>>

\* the answer arrives; on a redirect the client calls the CheckRedirect it
\* holds at that moment, which follows or returns http.ErrUseLastResponse
clientResponse(w, redirected) ==
    /\ mode = "client"
    /\ w \in DOMAIN calls
    /\ calls[w].pc = "sent"
    /\ calls' = [calls EXCEPT ![w] = [@ EXCEPT !.pc = "validateResponse",
                                                !.policy = IF redirected
                                                           THEN client.CheckRedirect
                                                           ELSE <<>>]]
    /\ UNCHANGED <<running, workers, jobs, insts, execs, smu, cancelled, eRunning, epc,
                   sup, ticks, checks, mode, alerts, agents, now, out, del, ext, arg,
                   client, snap>>

\* HTTPChecker.Check returns the result of validateResponse
CheckReturn(w) ==
    /\ mode = "client"
    /\ w \in DOMAIN calls
    /\ calls[w].pc = "validateResponse"
    /\ calls' = [x \in DOMAIN calls \ {w} |-> calls[x]]
    /\ UNCHANGED <<running, workers, jobs, insts, execs, smu, cancelled, eRunning, epc,
                   sup, ticks, checks, mode, alerts, agents, now, out, del, ext, arg,
                   client, snap>>

----------------------------------------------------------------------------
(* Specification *)

InitCommon ==
    /\ running = FALSE
    /\ workers = 0
    /\ jobs = <<>>
    /\ insts = <<>>
    /\ execs = EmptyBag
    /\ smu = "free"
    /\ cancelled = {}
    /\ eRunning = FALSE
    /\ epc = "idle"
    /\ sup = "none"
    /\ ticks = 0

\* no HTTP check is in progress, no liveness tick is under way
InitConc ==
    /\ client = NewClient
    /\ calls = <<>>
    /\ snap = <<>>

\* no check record is followed
InitExt ==
    /\ loopvar = "perIteration"
    /\ table = <<>>
    /\ heap = <<>>
    /\ sched = <<>>
    /\ loop = <<>>
    /\ InitConc
    /\ arg = [kind |-> "none"]

\* no alerts, no agents, no handler has run
InitAux ==
    /\ alerts = {}
    /\ agents = <<>>
    /\ now = 0
    /\ out = [kind |-> "none"]
    /\ del = 0
    /\ InitExt

\* a Scheduler driven through its own API, its jobs running any task
Init ==
    /\ InitCommon
    /\ InitAux
    /\ mode = "scheduler"
    /\ checks = {}

Next ==
    \/ \E res \in Results : Start(res)
    \/ \E res \in Results : Stop(res)
    \/ \E id \in JobIDs, res \in Results : AddJob(id, res)
    \/ \E id \in JobIDs, res \in Results : RemoveJob(id, res)
    \/ \E i \in InstIdx : TickerFire(i)
    \/ \E i \in InstIdx : runJobFirst(i)
    \/ \E i \in InstIdx : runJobTick(i)
    \/ \E i \in InstIdx : runJobDone(i)
    \/ \E e \in BagToSet(execs) : execCtxCheck(e)
    \/ \E e \in BagToSet(execs) : Task(e)
    \/ \E e \in BagToSet(execs) : backoffElapsed(e)
    \/ \E e \in BagToSet(execs) : backoffCancelled(e)
    \/ StopReturn

Spec == Init /\ [][Next]_vars

\* the Scheduler owned by an Engine whose jobs run executeCheck; storage
\* holds any number of enabled checks, with the ids storage gave them in turn
InitEngine ==
    /\ InitCommon
    /\ InitAux
    /\ mode = "engine"
    /\ checks \in {1..n : n \in 0..NumChecks}

NextEngine ==
    \/ \E res \in Results : EngineStart(res)
    \/ \E id \in CheckIDs, res \in Results : AddCheck(id, res)
    \/ \E res \in Results : EngineStop(res)
    \/ EngineStopScheduler
    \/ EngineStopReturn
    \/ processResultsDone
    \/ CancelParent
    \/ \E i \in InstIdx : TickerFire(i)
    \/ \E i \in InstIdx : runJobFirst(i)
    \/ \E i \in InstIdx : runJobTick(i)
    \/ \E i \in InstIdx : runJobDone(i)
    \/ \E e \in BagToSet(execs) : execCtxCheck(e)
    \/ \E e \in BagToSet(execs) : executeCheckProbe(e)
    \/ \E e \in BagToSet(execs) : executeCheckPersist(e)
    \/ \E e \in BagToSet(execs) : processCheckResult(e)
    \/ \E e \in BagToSet(execs) : backoffElapsed(e)
    \/ \E e \in BagToSet(execs) : backoffCancelled(e)
    \/ StopReturn

SpecEngine == InitEngine /\ [][NextEngine]_vars

\* the Scheduler whose jobs run tasks that can panic; a process that has
\* ended takes no further step
NextPanic ==
    \/ ~Crashed /\ Next
    \/ ~Crashed /\ \E e \in BagToSet(execs) : TaskPanic(e)

SpecPanic == Init /\ [][NextPanic]_vars

\* the Engine with the REST handler that deletes checks
NextDelete ==
    \/ \E res \in Results : EngineStart(res)
    \/ \E res \in Results : EngineStop(res)
    \/ EngineStopScheduler
    \/ EngineStopReturn
    \/ processResultsDone
    \/ \E id \in CheckIDs, deleted \in BOOLEAN : DeleteRecord(id, deleted)
    \/ DeleteUnschedule
    \/ \E i \in InstIdx : TickerFire(i)
    \/ \E i \in InstIdx : runJobFirst(i)
    \/ \E i \in InstIdx : runJobTick(i)
    \/ \E i \in InstIdx : runJobDone(i)
    \/ \E e \in BagToSet(execs) : execCtxCheck(e)
    \/ \E e \in BagToSet(execs) : executeCheckProbe(e)
    \/ \E e \in BagToSet(execs) : executeCheckPersist(e)
    \/ \E e \in BagToSet(execs) : processCheckResult(e)
    \/ \E e \in BagToSet(execs) : backoffElapsed(e)
    \/ \E e \in BagToSet(execs) : backoffCancelled(e)
    \/ StopReturn

SpecDelete == InitEngine /\ [][NextDelete]_vars

\* the liveness loop over time: agents report or stay silent, the ticker of
\* processResults fires every TickPeriod seconds
InitLiveness ==
    /\ InitCommon
    /\ mode = "liveness"
    /\ checks = {}
    /\ alerts = {}
    /\ agents \in [AgentIDs -> {AgentRow(en, st, iv) :
                                   en \in BOOLEAN, st \in AgentStatuses, iv \in Intervals}]
    /\ now = 0
    /\ out = [kind |-> "none", at |-> 0]
    /\ del = 0
    /\ InitExt

NextLiveness ==
    \/ \E a \in AgentIDs : UpdateLastSeenAt(a)
    \/ Elapse
    \/ \E found \in BOOLEAN, saveFails \in SUBSET AgentIDs, createFails \in SUBSET AgentIDs :
          checkOfflineAgents(found, saveFails, createFails, {})

SpecLiveness == InitLiveness /\ [][NextLiveness]_vars

\* the alerts tables whose rows are agent alerts on agent_offline or on one
\* of the thresholds
AgentAlertTables ==
    AlertTables({b \in AgentAlertBodies :
                    b.condition_type \in {"agent_offline", "cpu_usage_high"}})

\* the agents as a tick can find them: silent since the start, seen just
\* within the allowed delay, or seen longer ago
AgentsAtTick ==
    {AgentRow(en, st, MinInterval) : en \in BOOLEAN, st \in AgentStatuses}
    \cup
    {[AgentRow(en, st, MinInterval) EXCEPT !.seen = TRUE, !.last_seen_at = ls] :
        en \in BOOLEAN, st \in AgentStatuses,
        ls \in {MaxTime - (MinInterval + GracePeriod),
                MaxTime - (MinInterval + GracePeriod) - MinInterval}}

\* one tick of the liveness loop against any agents and any alerts on them
InitOffline ==
    /\ InitCommon
    /\ mode = "offline"
    /\ checks = {}
    /\ alerts \in AgentAlertTables
    /\ agents \in [AgentIDs -> AgentsAtTick]
    /\ now = MaxTime
    /\ out = [kind |-> "none", at |-> 0]
    /\ del = 0
    /\ InitExt

NextOffline ==
    \E found \in BOOLEAN, createFails \in SUBSET AgentIDs, loadFails \in SUBSET AgentIDs :
        checkOfflineAgents(found, {}, createFails, loadFails)

SpecOffline == InitOffline /\ [][NextOffline]_vars

\* one run of executeCheck against any alerts table, for any check of the
\* engine and anything the probe, the storage and the alert transport can do
InitAlerts ==
    /\ InitCommon
    /\ mode = "alerts"
    /\ checks = CheckIDs
    /\ alerts \in AlertTables(CheckAlertBodies)
    /\ agents = <<>>
    /\ now = 0
    /\ out = [kind |-> "none"]
    /\ del = 0
    /\ InitExt

NextAlerts ==
    \E check \in [id : CheckIDs, type : CheckTypes \cup {"unsupported"}] :
        \E io \in Outcomes(check.type), persisted \in BOOLEAN, loaded \in BOOLEAN :
            executeCheck(check, io, persisted, loaded)

SpecAlerts == InitAlerts /\ [][NextAlerts]_vars

\* the engine with the REST handlers of the checks; the toolchain that built
\* the program fixes the scope of range variables
InitSync ==
    /\ InitCommon
    /\ alerts = {}
    /\ agents = <<>>
    /\ now = 0
    /\ out = [kind |-> "none"]
    /\ del = 0
    /\ mode = "sync"
    /\ checks = {}
    /\ loopvar \in {"shared", "perIteration"}
    /\ table = <<>>
    /\ heap = <<>>
    /\ sched = <<>>
    /\ loop = <<>>
    /\ InitConc
    /\ arg = [kind |-> "none"]

NextSync ==
    \/ \E res \in Results : StartLoad(res)
    \/ StartSchedule
    \/ StartDone
    \/ \E en \in BOOLEAN, iv \in CheckIntervals, saved \in BOOLEAN : HandlerCreate(en, iv, saved)
    \/ \E id \in CheckIDs, en \in BOOLEAN, iv \in CheckIntervals, saved \in BOOLEAN :
         HandlerUpdate(id, en, iv, saved)
    \/ \E id \in CheckIDs, deleted \in BOOLEAN : HandlerDelete(id, deleted)
    \/ \E id \in CheckIDs : JobProbe(id)

SpecSync == InitSync /\ [][NextSync]_vars

\* one config, HTTP or ping, under one set of installed defaults
InitConfig ==
    /\ InitCommon
    /\ alerts = {}
    /\ agents = <<>>
    /\ now = 0
    /\ out = [kind |-> "none"]
    /\ del = 0
    /\ mode = "config"
    /\ checks = {}
    /\ loopvar = "perIteration"
    /\ table = <<>>
    /\ heap = <<>>
    /\ sched = <<>>
    /\ loop = <<>>
    /\ InitConc
    /\ arg \in [kind : {"http"}, doc : HTTPDocs, defaults : HTTPDefaults]
               \cup [kind : {"ping"}, doc : PingDocs, defaults : PingDefaults]

NextConfig ==
    \/ CanonicalizeHTTP
    \/ CanonicalizePing

SpecConfig == InitConfig /\ [][NextConfig]_vars

\* one check or one alert on its way through its validator
InitValidate ==
    /\ InitCommon
    /\ alerts = {}
    /\ agents = <<>>
    /\ now = 0
    /\ out = [kind |-> "none"]
    /\ del = 0
    /\ mode = "validate"
    /\ checks = {}
    /\ loopvar = "perIteration"
    /\ table = <<>>
    /\ heap = <<>>
    /\ sched = <<>>
    /\ loop = <<>>
    /\ InitConc
    /\ arg \in [kind : {"check"}, check : CheckInputs]
               \cup [kind : {"alert"}, alert : AlertInputs]

NextValidate ==
    \/ \E saved \in BOOLEAN : BeforeCreate(saved)
    \/ AlertValidate

SpecValidate == InitValidate /\ [][NextValidate]_vars

\* one HTTP probe of a check whose config expects status 200
InitProbe ==
    /\ InitCommon
    /\ alerts = {}
    /\ agents = <<>>
    /\ now = 0
    /\ out = [kind |-> "none"]
    /\ del = 0
    /\ mode = "probe"
    /\ checks = {}
    /\ loopvar = "perIteration"
    /\ table = <<>>
    /\ heap = <<>>
    /\ sched = <<>>
    /\ loop = <<>>
    /\ InitConc
    /\ arg \in [kind : {"probe"}, check : CheckIDs,
                cfg : [expected_status : {DefaultStatus},
                       expected_content : {NoText, <<"ok">>, <<"timeout">>}],
                io : HTTPExchanges]

NextProbe == HTTPRespond

SpecProbe == InitProbe /\ [][NextProbe]_vars


\* the workers of the scheduler inside HTTPChecker.Check, each for a check
\* with a config of its own
InitClient ==
    /\ InitCommon
    /\ InitAux
    /\ mode = "client"
    /\ checks = {}

NextClient ==
    \/ \E w \in Callers, cfg \in ClientConfigs : CheckEnter(w, cfg)
    \/ \E w \in Callers : configureClientTimeout(w)
    \/ \E w \in Callers : configureClientCheckRedirect(w)
    \/ \E w \in Callers : clientDo(w)
    \/ \E w \in Callers, redirected \in BOOLEAN : clientResponse(w, redirected)
    \/ \E w \in Callers : CheckReturn(w)

SpecClient == InitClient /\ [][NextClient]_vars


\* the liveness loop and the ingestion of metrics side by side: reports
\* arrive and time passes while a tick is between its Find and its writes
InitRace ==
    /\ InitCommon
    /\ mode = "race"
    /\ checks = {}
    /\ alerts \in AgentAlertTables
    /\ agents \in [AgentIDs -> {AgentRow(en, st, iv) :
                                   en \in BOOLEAN, st \in AgentStatuses, iv \in Intervals}]
    /\ now = 0
    /\ out = [kind |-> "none", at |-> 0]
    /\ del = 0
    /\ InitExt

NextRace ==
    \/ \E a \in AgentIDs : UpdateLastSeenAt(a)
    \/ Elapse
    \/ \E found \in BOOLEAN : offlineFind(found)
    \/ \E saved \in BOOLEAN, created \in BOOLEAN, loaded \in BOOLEAN :
          offlineIteration(saved, created, loaded)
    \/ offlineReturn

SpecRace == InitRace /\ [][NextRace]_vars

----------------------------------------------------------------------------
(* Properties *)

\* runJob of job object i calls executeJobTask in this step: the immediate
\* first execution, or a tick received from the ticker channel
FiredNow(i) ==
    \/ insts[i].pc = "first" /\ insts'[i].pc = "loop"
    \/ /\ insts[i].pc = "loop" /\ insts'[i].pc = "loop"
       /\ insts[i].tick = 1 /\ insts'[i].tick = 0

\* job object i is no longer in s.jobs
Removed(i) == \A id \in DOMAIN jobs : jobs[id] # i

\* worker goroutines of job object i that passed the cancellation check and
\* are about to call job.Task
PendingTask(i) == BagCardinality(BagOver({e \in ExecsOf(i) : e.pc = "task"}))

\* C1: while the scheduler is running, the executions in flight (those in a
\* retry backoff included) plus the free tokens of the pool make worker_count,
\* so no more than worker_count tasks run at once.
WorkerPoolInvariant ==
    running => /\ workers + NumExecs = WorkerCount
               /\ NumExecs <= WorkerCount

\* the pool is exhausted: every token is held by an execution in flight
WorkerPoolExhausted == running /\ workers = 0 /\ NumExecs = WorkerCount

\* C2: a firing that finds no free token is dropped and never made up for:
\* an execution starts only in the step of a firing, and only by taking a
\* token that is free in that step; a firing with an empty pool starts nothing.
LoadShedding ==
    [][\A i \in InstIdx :
         /\ (execs' # execs /\ InFlight(i)' > InFlight(i)) =>
                /\ FiredNow(i)
                /\ workers > 0
                /\ workers' = workers - 1
                /\ InFlight(i)' = InFlight(i) + 1
         /\ (FiredNow(i) /\ workers = 0) =>
                /\ execs' = execs
                /\ workers' = 0
                /\ insts'[i].lastFire = "skipped"
         /\ ~FiredNow(i) => insts'[i].lastFire = insts[i].lastFire]_vars

\* a firing was skipped, a token is free again, and the job just waits for
\* its next tick
SkippedFiringNotCaughtUp ==
    \E i \in InstIdx :
        /\ insts[i].lastFire = "skipped"
        /\ insts[i].pc = "loop"
        /\ insts[i].tick = 0
        /\ workers > 0

\* C3: at most one execution of a job is in flight at any time.
NoDoublingUp == \A i \in InstIdx : InFlight(i) <= 1

\* C4: Stop cancels the context of every execution in flight and returns only
\* after every job goroutine, every worker goroutine and the supervisor
\* goroutine has finished; afterwards nothing runs and neither the scheduler
\* nor the engine reports running.
StopQuiesces ==
    /\ smu = "Stop" => \A e \in BagToSet(execs) : JobCtxErr(e.job)
    /\ epc = "waitSup" => (wg = 0 /\ ~running)
    /\ ~eRunning => (wg = 0 /\ NumExecs = 0 /\ sup # "run" /\ ~running)

\* Engine.Stop waits in Scheduler.Stop while a task is between probe and persist
StopWithTaskInFlight ==
    epc = "inSchedStop" /\ \E e \in BagToSet(execs) : e.pc = "persist"

\* C5: once the context passed to Start is cancelled, every job context is
\* cancelled.
ParentCancelPropagates ==
    CtxErr("parent") => \A i \in InstIdx : JobCtxErr(i)

\* C6: a rejected Start, AddJob or RemoveJob returns an error and nothing
\* else, a Stop of a scheduler that is not running returns silently, and none
\* of them changes the running flag, the jobs map, the job objects or the pool.
RejectedOpsChangeNothing ==
    /\ [](smu = "free" =>
            /\ running => (ENABLED Start("err") /\ ~ENABLED Start("ok"))
            /\ ~running => (ENABLED Stop("ok") /\ ~ENABLED Stop("err"))
            /\ \A id \in JobIDs :
                 /\ (~running \/ id \in DOMAIN jobs) =>
                        (ENABLED AddJob(id, "err") /\ ~ENABLED AddJob(id, "ok"))
                 /\ id \notin DOMAIN jobs =>
                        (ENABLED RemoveJob(id, "err") /\ ~ENABLED RemoveJob(id, "ok")))
    /\ [][\A res \in Results :
            /\ (running /\ Start(res)) => UNCHANGED vars
            /\ (~running /\ Stop(res)) => UNCHANGED vars
            /\ \A id \in JobIDs :
                 /\ (~running /\ AddJob(id, res)) => UNCHANGED vars
                 /\ (id \in DOMAIN jobs /\ AddJob(id, res)) => UNCHANGED vars
                 /\ (id \notin DOMAIN jobs /\ RemoveJob(id, res)) => UNCHANGED vars]_vars

\* a job is registered and a task is in flight: Start, a second AddJob of the
\* job and RemoveJob of another id are rejected here, and leave this state
RejectedWhileBusy ==
    running /\ smu = "free" /\ jobs # <<>> /\ NumExecs > 0

\* C7: a started job attempts an execution at once, before it takes any tick,
\* and then one per tick it takes; with a free token the attempt runs the task.
FirstThenPerTick ==
    /\ [](\A i \in InstIdx :
            /\ insts[i].pc = "first" =>
                   (insts[i].lastFire = "none" /\ InFlight(i) = 0)
            /\ insts[i].pc \in {"loop", "done"} => insts[i].lastFire # "none")
    /\ [][\A i \in InstIdx :
            /\ (FiredNow(i) /\ workers > 0) =>
                   /\ InFlight(i)' = InFlight(i) + 1
                   /\ insts'[i].lastFire = "ran"
            /\ (insts[i].pc = "loop" /\ insts'[i].lastFire # insts[i].lastFire) =>
                   (insts[i].tick = 1 /\ insts'[i].tick = 0)]_vars

\* the first execution of a job and the execution of its first tick are
\* both in flight
RanFirstAndTick ==
    \E i \in InstIdx :
        insts[i].pc = "loop" /\ insts[i].lastFire = "ran" /\ InFlight(i) = 2

\* C8 as stated: once a job is removed, no invocation of its task begins
\* (an invocation is the step of a worker goroutine from "task" on).
NoInvocationAfterRemove ==
    [][\A i \in InstIdx :
         (execs' # execs /\ Removed(i)) => PendingTask(i)' >= PendingTask(i)]_vars

\* C8 amended: RemoveJob takes the job out of the map with its context
\* cancelled and its ticker stopped; afterwards no execution of it passes the
\* cancellation check, so only an execution already past it can still invoke.
RemoveJobCancels ==
    /\ [](\A i \in InstIdx :
            Removed(i) => (JobCtxErr(i) /\ insts[i].stopped /\ ~insts[i].running))
    /\ [][/\ \A i \in InstIdx :
              (execs' # execs /\ Removed(i)) => PendingTask(i)' <= PendingTask(i)
          /\ \A id \in JobIDs :
              (id \in DOMAIN jobs /\ RemoveJob(id, "ok")) =>
                  /\ id \notin DOMAIN jobs'
                  /\ \A other \in DOMAIN jobs' : jobs'[other] # jobs[id]]_vars

\* a removed job still has an execution in flight
RemovedWithExecution ==
    \E i \in InstIdx : Removed(i) /\ InFlight(i) > 0

ExecuteCheckOrder ==
    \A e \in BagToSet(execs) :
        /\ e.trace \in {<<>>, <<"probe">>, <<"probe", "persist">>,
                        <<"probe", "persistFailed">>}
        /\ e.pc = "persist" => e.trace = <<"probe">>
        /\ e.pc = "alerts" => e.trace = <<"probe", "persist">>
        /\ e.pc = "backoff" => e.trace = <<"probe", "persistFailed">>

\* an execution has probed and persisted and is evaluating the alerts
AlertsAfterPersist ==
    \E e \in BagToSet(execs) :
        e.pc = "alerts" /\ e.trace = <<"probe", "persist">>


\* a condition type of a check alert and the status it stands for
Corresponds(conditionType, status) ==
    <<conditionType, status>> \in {<<"status_down", "down">>,
                                   <<"status_timeout", "timeout">>,
                                   <<"status_error", "error">>}

\* the alert transport was invoked for alert rule a in the last run
SentFor(a) == \E s \in out.sent : s.alert = a.id

\* C11: after a run of executeCheck for check c an alert was sent for rule a
\* only if the observation was persisted, a is enabled, a.check_id = c and
\* a.condition_type corresponds to the status of the observation; and
\* whenever the alerts of the check could be loaded, every such rule was sent
CheckAlertFiringRule ==
    out.kind = "check" =>
        \A a \in alerts :
            /\ SentFor(a) =>
                   /\ a.enabled /\ a.check_id = out.owner
                   /\ \E o \in out.obs : Corresponds(a.condition_type, o.status)
            /\ (/\ out.loaded /\ a.enabled /\ a.check_id = out.owner
                /\ \E o \in out.obs : Corresponds(a.condition_type, o.status))
               => SentFor(a)

\* a status_down rule fired for a down observation while an enabled
\* status_timeout rule of the same check stayed silent
DownAlertOnly ==
    /\ out.kind = "check"
    /\ \E o \in out.obs : o.status = "down"
    /\ \E a, b \in alerts :
          /\ a.check_id = out.owner /\ b.check_id = out.owner
          /\ a.enabled /\ b.enabled
          /\ a.condition_type = "status_down" /\ SentFor(a)
          /\ b.condition_type = "status_timeout" /\ ~SentFor(b)

\* C13: the status the probe's classifier gave to a failure (timeout, down)
\* is the status of the observation executeCheck persists for that execution
ClassificationReachesStorage ==
    out.kind = "check" =>
        \A o \in out.obs :
            out.probe.result.status \in {"timeout", "down"}
                => o.status = out.probe.result.status

PersistFailureAbandonsTick ==
    \A e \in BagToSet(execs) :
        /\ e.trace = <<"probe", "persistFailed">> => e.pc \notin {"backoff", "task"}
        /\ e.invoked <= 1

\* C16: a panic of a task is recovered inside its execution: the process
\* never ends in the panic, with the execution dead and holding its token
TaskPanicsContained == ~Crashed

\* C20: no started job exists for a check whose record is gone from storage
DeletionOrdering ==
    \A id \in DOMAIN jobs : insts[jobs[id]].running => id \in checks

\* the agents row the last tick found for agent a
Found(a) == out.before[a]

\* the rule of the specification for an agent to count as offline at the last tick
OfflineAtTick(a) ==
    /\ Found(a).enabled
    /\ \/ ~Found(a).seen
       \/ out.at - Found(a).last_seen_at > Found(a).interval_seconds + GracePeriod

\* C17: at a liveness tick that could load the agents, the agents treated as
\* offline are exactly the enabled ones that never reported or whose last
\* report is more than interval_seconds + 30 s old; nothing else counts
OfflinePredicate ==
    (out.kind = "tick" /\ out.found) =>
        out.offline = {a \in AgentIDs : OfflineAtTick(a)}

\* an agent stored as offline that reported exactly interval_seconds + 30 s
\* before the tick was treated as online
OnlineAtTheLimit ==
    /\ out.kind = "tick" /\ out.found
    /\ \E a \in AgentIDs :
          /\ Found(a).enabled /\ Found(a).seen
          /\ Found(a).status = "offline"
          /\ out.at - Found(a).last_seen_at = Found(a).interval_seconds + GracePeriod
          /\ a \notin out.offline

\* the last tick: what it appended to AgentHistory and wrote to agents
OfflineRecords ==
    out.kind = "tick" =>
        /\ \A a \in AgentIDs :
              (out.found /\ OfflineAtTick(a) /\ a \notin out.createFails) =>
                  /\ Cardinality({h \in out.histories : h.agent_id = a}) = 1
                  /\ offlineHistory(a, out.at) \in out.histories
        /\ \A h \in out.histories :
              /\ OfflineAtTick(h.agent_id)
              /\ h.is_offline /\ h.metrics = 0 /\ h.collect_duration_ms = 0
              /\ h.collected_at = out.at
        /\ \A a \in AgentIDs :
              /\ agents[a].status # Found(a).status =>
                    /\ OfflineAtTick(a)
                    /\ Found(a).status # "offline" /\ agents[a].status = "offline"
              /\ (/\ out.found /\ OfflineAtTick(a) /\ Found(a).status # "offline"
                  /\ a \notin out.saveFails) => agents[a].status = "offline"

\* C18: on every liveness tick every enabled agent that is offline at the
\* tick gets exactly one synthetic AgentHistory row (is_offline, zeroed,
\* collected_at the tick time) whenever storage takes the row, also when the
\* status update failed; the status is written to offline only on a tick
\* that finds another status stored; and a status that is offline stays so,
\* so that a silent agent has at most one status transition
OfflineRecordStream ==
    /\ []OfflineRecords
    /\ [][\A a \in AgentIDs :
            agents[a].status = "offline" => agents'[a].status = "offline"]_vars

\* a second offline tick for a silent agent whose status update failed on the
\* tick: the row is appended, the status is still to be written
SilentAgentSecondTick ==
    /\ out.kind = "tick" /\ out.at = TickPeriod + TickPeriod
    /\ \E a \in AgentIDs :
          /\ ~Found(a).seen /\ Found(a).enabled
          /\ a \in out.saveFails
          /\ agents[a].status = "online"
          /\ offlineHistory(a, out.at) \in out.histories

\* C12: every invocation of the alert transport for a rule whose history
\* row storage is ready to take is audited by exactly one AlertHistory row
\* of that rule, of status sent if the transport returned no error and
\* failed if it returned one
EveryDispatchAudited ==
    out.kind \in {"tick", "check"} =>
        \A s \in out.sent :
            s.alert \notin out.lost =>
                /\ Cardinality({r \in out.rows : r.alert_id = s.alert}) = 1
                /\ \A r \in out.rows :
                      r.alert_id = s.alert =>
                          r.status = (IF s.ok THEN "sent" ELSE "failed")

\* C19: on a liveness tick an alert is sent at most once, and only if it is
\* enabled, of condition type agent_offline and owned by an enabled agent
\* that is offline at the tick; and every such alert is sent whenever the
\* agents, the offline row of the agent and its alerts went through storage,
\* whatever status the agent had before the tick
OfflineAlerts ==
    out.kind = "tick" =>
        \A x \in alerts :
            /\ Cardinality({s \in out.sent : s.alert = x.id}) <= 1
            /\ SentFor(x) =>
                  /\ x.enabled /\ x.condition_type = "agent_offline"
                  /\ x.agent_id \in AgentIDs /\ OfflineAtTick(x.agent_id)
            /\ (/\ x.enabled /\ x.condition_type = "agent_offline"
                /\ x.agent_id \in AgentIDs /\ OfflineAtTick(x.agent_id)
                /\ out.found
                /\ x.agent_id \notin (out.createFails \cup out.loadFails))
               => SentFor(x)

\* an agent stored as offline before the tick is alerted again, while an
\* enabled threshold alert of the same agent stays silent
OfflineAlertRepeated ==
    /\ out.kind = "tick"
    /\ \E x, y \in alerts :
          /\ x.agent_id = y.agent_id /\ x.enabled /\ y.enabled
          /\ Found(x.agent_id).status = "offline"
          /\ x.condition_type = "agent_offline" /\ SentFor(x)
          /\ y.condition_type # "agent_offline" /\ ~SentFor(y)


JobsTrackEnabledChecks ==
    (eRunning /\ loop = <<>>) =>
        \A id \in DOMAIN sched :
            /\ table[id].exists
            /\ table[id].enabled
            /\ sched[id].Interval = table[id].interval


\* C22: the observation executeCheck hands to storage for an execution of
\* check c, and so every observation it persists, has check_id = c.id,
\* whatever path the probe took (HTTP or ping, success, failure, packet loss,
\* command failure, dispatcher error).
ObservationOwnership ==
    out.kind = "check" =>
        /\ out.given.check_id = out.owner
        /\ \A o \in out.obs : o.check_id = out.owner

\* a ping that lost most packets: its result was created without an owner
\* and was persisted under the check's id
PingLossPersisted ==
    /\ out.kind = "check"
    /\ out.probe.err = NoErr
    /\ out.probe.result.status = "down"
    /\ out.obs # {}
    /\ out.owner = NumChecks


\* C25 as stated: for every config the validator accepts, validating its
\* output again is accepted and gives the identical text, and the probe's
\* parser accepts the output and reads from it the fields the output holds.
CanonicalizationIdempotent ==
    (out.kind = "config" /\ out.first.ok) =>
        /\ out.second.ok
        /\ out.second.config = out.first.config
        /\ out.parsed.ok
        /\ \A f \in out.first.config.has : out.parsed.cfg[f] = out.first.config[f]

\* the check differs from one ValidateCheck accepts in its interval and
\* timeout at most
OtherwiseValid(check) ==
    ValidateCheck([check EXCEPT !.interval = MaxCheckInterval,
                                !.timeout = MinCheckTimeout]).ok

\* C23: a check that is otherwise valid is accepted by ValidateCheck if and
\* only if 5 <= interval <= 86400, 1 <= timeout <= 300 and timeout < interval;
\* so every check stored through the validating hook has timeout < interval.
IntervalTimeoutRule ==
    out.kind = "check" =>
        /\ OtherwiseValid(arg.check) =>
              (out.accepted <=>
                  /\ MinCheckInterval <= arg.check.interval
                  /\ arg.check.interval <= MaxCheckInterval
                  /\ MinCheckTimeout <= arg.check.timeout
                  /\ arg.check.timeout <= MaxCheckTimeout
                  /\ arg.check.timeout < arg.check.interval)
        /\ \A row \in out.stored : row.timeout < row.interval

\* a check whose timeout is one second below its interval was accepted and
\* stored
NearTimeoutStored ==
    /\ out.kind = "check"
    /\ arg.check.interval = SampleInterval
    /\ arg.check.timeout = SampleInterval - 1
    /\ out.accepted
    /\ out.stored # {}

\* exactly one owner is set and the condition is one of that owner's
OneOwnerWithItsCondition(alert) ==
    \/ /\ alert.check_id # 0
       /\ alert.agent_id = 0
       /\ alert.condition_type \in {"status_down", "status_timeout", "status_error"}
    \/ /\ alert.check_id = 0
       /\ alert.agent_id # 0
       /\ alert.condition_type \in {"cpu_usage_high", "memory_usage_high",
                                    "disk_usage_high", "agent_offline"}

OtherFieldsValid(alert) ==
    /\ alert.type \in {"telegram", "bale", "email", "webhook"}
    /\ alert.condition_type \in {"cpu_usage_high", "memory_usage_high", "disk_usage_high"}
          => /\ alert.condition_value # <<>>
             /\ alert.condition_value[1] >= 0
             /\ alert.condition_value[1] <= MaxConditionValue
    /\ alert.config = NoText

HTTPDecisionTable ==
    out.kind = "http" =>
        /\ (/\ arg.io.err = NoErr
            /\ arg.io.StatusCode = arg.cfg.expected_status
            /\ arg.cfg.expected_content # NoText
            /\ stringsContains(SubSeq(arg.io.body, 1,
                                      Min(ReadBuffer \div PhraseBytes, Len(arg.io.body))),
                               arg.cfg.expected_content))
              => out.result.status = "up"
        /\ (arg.io.err = NoErr /\ arg.io.StatusCode = 500)
              => out.result.status = "down" /\ out.result.status_code = <<500>>
        /\ (/\ arg.io.err = NoErr
            /\ arg.io.StatusCode = arg.cfg.expected_status
            /\ arg.cfg.expected_content # NoText
            /\ ~stringsContains(arg.io.body, arg.cfg.expected_content))
              => out.result.status = "down"
        /\ (arg.io.err # NoErr /\ contains(arg.io.err, "no such host"))
              => out.result.status = "error"


\* C27 as stated: Start on a scheduler that is not running, after a previous
\* Start and Stop as well, puts exactly worker_count tokens into the pool and
\* returns nil with the scheduler running and its lock free.
StartAlwaysReturns ==
    [][\A res \in Results :
          (~running /\ Start(res)) =>
              /\ res = "ok"
              /\ running'
              /\ workers' = WorkerCount
              /\ smu' = "free"]_vars


\* C28 as stated: every request of an HTTP check leaves with the timeout of
\* its own check's config, and a redirect it meets is decided by the
\* follow_redirects of its own check's config, whatever the other workers do.
PerCheckSettingsIsolated ==
    mode = "client" =>
        \A w \in DOMAIN calls :
            /\ calls[w].timeout # <<>> =>
                  calls[w].timeout = <<calls[w].cfg.timeout_seconds>>
            /\ calls[w].policy # <<>> =>
                  calls[w].policy = <<calls[w].cfg.follow_redirects>>


\* C30 as stated: no step of a liveness tick takes an agent's last_seen_at
\* back to an older value or to none, and the iteration of a tick over an
\* agent it finds online writes nothing: no row of agents, no AgentHistory,
\* no alert.
ReportNeverLost ==
    [][(mode = "race" /\ snap # <<>> /\ snap' # <<>> /\ snap' # snap) =>
          /\ \A a \in AgentIDs :
                agents[a].seen =>
                   /\ agents'[a].seen
                   /\ agents'[a].last_seen_at >= agents[a].last_seen_at
          /\ ~out'.offline =>
                /\ agents' = agents
                /\ out'.histories = {}
                /\ out'.sent = {}
                /\ out'.rows = {}]_vars

====
